---------------------------- MODULE Spec2Model ----------------------------
(***************************************************************************)
(* Model of the Kea DHCP persistence layer:                                *)
(*   - the PostgreSQL lease store (src/lib/dhcpsrv/pgsql_lease_mgr.cc):    *)
(*     statement catalog, Lease4/Lease6 row exchange, add / get / update / *)
(*     delete / page / reclaim;                                            *)
(*   - the in-memory configuration store                                   *)
(*     (src/lib/dhcpsrv/testutils/test_config_backend_dhcp4.cc).           *)
(* Three specifications share the variables: Spec (lease store CRUD),      *)
(* SpecPage (one paged iteration over a stable table) and SpecCfg (the     *)
(* configuration store).                                                   *)
(***************************************************************************)
EXTENDS Integers, Sequences, FiniteSets, TLC

VARIABLES family, table, last, page, subnets_, option_defs_, options_, globals_, cfg_last,
          shared_networks_, stats_query, mgr

vars == <<family, table, last, page, subnets_, option_defs_, options_, globals_, cfg_last,
          shared_networks_, stats_query, mgr>>

(***************************************************************************)
(* Bounds of the model.                                                    *)
(***************************************************************************)
\* lease addresses of the CRUD specification are 1..MaxAddr (v4) and ::1..::MaxAddr (v6)
MaxAddr == 2
\* time(NULL) is drawn from 0..MaxNow, the secs argument from 0..MaxSecs
MaxNow == 4
MaxSecs == 1
\* a paged iteration runs over v4 addresses 0..MaxPageAddr (v6: ::0..::MaxPageAddr and
\* three more), with page sizes 1..MaxPageSize
MaxPageAddr == 2
MaxPageSize == 2
\* number of pages an iteration may fetch before the model stops following it
MaxPages == 7
\* the configuration store: subnet IDs 1..MaxSubnetId, option codes 1..MaxCode, entity
\* contents 1..MaxValue, and at most MaxStored entities stored at a time
MaxSubnetId == 2
MaxCode == 2
MaxValue == 2
MaxStored == 2

(***************************************************************************)
(* Program constants.                                                      *)
(***************************************************************************)
FIVEHUNDREDDAYS == 43200000
MAX_HWADDR_LEN == 20
MAX_CLIENT_ID_LEN == 128
HTYPE_UNDEFINED == 0
HTYPE_ETHER == 1
HTYPE_IEEE802 == 6
HWADDR_SOURCE_UNKNOWN == 0
HWADDR_SOURCE_DUID == 2
STATE_DEFAULT == 0
STATE_DECLINED == 1
STATE_EXPIRED_RECLAIMED == 2
TYPE_NA == 0
TYPE_TA == 1
TYPE_PD == 2
TYPE_V4 == 3

(***************************************************************************)
(* uint32_t values.  The model checker's integers are signed 32-bit, so a  *)
(* uint32_t is kept as its two 16-bit halves; an int32_t is an integer.    *)
(***************************************************************************)
U32(n) == [hi |-> n \div 65536, lo |-> n % 65536]
\* the value of a uint32_t below 2^31
U32Val(u) == u.hi * 65536 + u.lo
\* Lease::INFINITY_LFT, 0xffffffff; the catalog writes it 4294967295
INFINITY_LFT == [hi |-> 65535, lo |-> 65535]

(***************************************************************************)
(* Byte strings and text.  A text is a sequence of character codes.        *)
(***************************************************************************)
Bytes(n) == [i \in 1..n |-> 170]

\* one hexadecimal digit as a character code ('0'..'9', 'a'..'f')
HexDigit(d) == IF d < 10 THEN 48 + d ELSE 87 + d

\* a 16-bit group below 0x100 in lower-case hex, no leading zeros
HexGroup(n) == IF n < 16 THEN <<HexDigit(n)>> ELSE <<HexDigit(n \div 16), HexDigit(n % 16)>>

\* value of one hex digit character
DigitVal(c) == IF c >= 97 THEN c - 87 ELSE c - 48

RECURSIVE HexVal(_)
HexVal(s) == IF Len(s) = 0 THEN 0 ELSE 16 * HexVal(SubSeq(s, 1, Len(s) - 1)) + DigitVal(s[Len(s)])

\* bytewise lexicographic order of two texts (the backend's comparison of VARCHAR values)
RECURSIVE TextLess(_, _)
TextLess(s, t) ==
    IF Len(t) = 0 THEN FALSE
    ELSE IF Len(s) = 0 THEN TRUE
    ELSE IF s[1] # t[1] THEN s[1] < t[1]
    ELSE TextLess(Tail(s), Tail(t))

(***************************************************************************)
(* IOAddress.  A v4 address is its 32-bit value in lo; a v6 address of     *)
(* the model is hi:0:0:0:0:0:0:lo, whose text form is "hi::lo".            *)
(***************************************************************************)
V4(n) == [family |-> 4, hi |-> 0, lo |-> n]
V6(h, l) == [family |-> 6, hi |-> h, lo |-> l]
IPV4_ZERO_ADDRESS == V4(0)
IPV6_ZERO_ADDRESS == V6(0, 0)

isV4(a) == a.family = 4
isV6(a) == a.family = 6
isV6Zero(a) == a = IPV6_ZERO_ADDRESS
toUint32(a) == a.lo

\* IOAddress::toText of a v6 address: the run of zero groups is compressed to "::"
toText(a) ==
    (IF a.hi = 0 THEN <<>> ELSE HexGroup(a.hi)) \o <<58, 58>>
        \o (IF a.lo = 0 THEN <<>> ELSE HexGroup(a.lo))

\* position of the "::" in a v6 text
ColonPos(s) == CHOOSE i \in 1..(Len(s) - 1) : s[i] = 58 /\ s[i + 1] = 58

\* getIPv6Value: the address column parsed back into an IOAddress
getIPv6Value(s) ==
    LET p == ColonPos(s)
    IN V6(HexVal(SubSeq(s, 1, p - 1)), HexVal(SubSeq(s, p + 2, Len(s))))

(***************************************************************************)
(* JSON elements (data::Element) and their text.  A text of JSON is a      *)
(* sequence of tokens; a map of the model holds integer values only.       *)
(***************************************************************************)
NullElement == [type |-> "null", i |-> 0, s |-> "", m |-> {}]
IntElement(n) == [type |-> "integer", i |-> n, s |-> "", m |-> {}]
StringElement(x) == [type |-> "string", i |-> 0, s |-> x, m |-> {}]
MapElement(entries) == [type |-> "map", i |-> 0, s |-> "", m |-> entries]
BadElement == [type |-> "error", i |-> 0, s |-> "", m |-> {}]

Punct(c) == [k |-> c, s |-> "", n |-> 0]
StrTok(x) == [k |-> "str", s |-> x, n |-> 0]
IntTok(n) == [k |-> "int", s |-> "", n |-> n]

\* the keys a map of the model may hold, in std::map (lexicographic) order
KeyOrder == <<"a", "b">>

RECURSIVE EntriesText(_, _, _)
EntriesText(entries, i, first) ==
    IF i > Len(KeyOrder) THEN <<>>
    ELSE IF \E e \in entries : e.k = KeyOrder[i]
         THEN LET e == CHOOSE x \in entries : x.k = KeyOrder[i]
              IN (IF first THEN <<>> ELSE <<Punct(",")>>)
                     \o <<StrTok(e.k), Punct(":"), IntTok(e.v)>>
                     \o EntriesText(entries, i + 1, FALSE)
         ELSE EntriesText(entries, i + 1, first)

\* Element::str()
ElementStr(e) ==
    CASE e.type = "map" -> <<Punct("{")>> \o EntriesText(e.m, 1, TRUE) \o <<Punct("}")>>
      [] e.type = "integer" -> <<IntTok(e.i)>>
      [] e.type = "string" -> <<StrTok(e.s)>>
      [] OTHER -> <<Punct("null")>>

RECURSIVE ParseEntries(_, _, _)
ParseEntries(t, i, acc) ==
    IF i > Len(t) THEN BadElement
    ELSE IF t[i].k = "}" THEN (IF i = Len(t) THEN MapElement(acc) ELSE BadElement)
    ELSE IF i + 2 > Len(t) \/ t[i].k # "str" \/ t[i + 1].k # ":" \/ t[i + 2].k # "int"
         THEN BadElement
    ELSE LET acc2 == {x \in acc : x.k # t[i].s} \cup {[k |-> t[i].s, v |-> t[i + 2].n]}
         IN IF i + 3 <= Len(t) /\ t[i + 3].k = ","
            THEN ParseEntries(t, i + 4, acc2)
            ELSE ParseEntries(t, i + 3, acc2)

\* Element::fromJSON; BadElement stands for the JSONError it throws
ElementFromJSON(t) ==
    IF Len(t) = 0 THEN BadElement
    ELSE CASE t[1].k = "{" -> ParseEntries(t, 2, {})
           [] t[1].k = "int" /\ Len(t) = 1 -> IntElement(t[1].n)
           [] t[1].k = "str" /\ Len(t) = 1 -> StringElement(t[1].s)
           [] t[1].k = "null" /\ Len(t) = 1 -> NullElement
           [] OTHER -> BadElement

(***************************************************************************)
(* Hardware addresses, pointers and leases.  A null pointer is the record  *)
(* with null = TRUE.                                                       *)
(***************************************************************************)
NullHWAddr == [null |-> TRUE, htype |-> 0, source |-> 0, hwaddr |-> <<>>]
HWAddr(bytes, htype, source) == [null |-> FALSE, htype |-> htype, source |-> source, hwaddr |-> bytes]
NullId == [null |-> TRUE, id |-> <<>>]
Id(bytes) == [null |-> FALSE, id |-> bytes]
NullCtx == [null |-> TRUE, e |-> NullElement]
Ctx(e) == [null |-> FALSE, e |-> e]

(***************************************************************************)
(* The leases the callers of the model pass in.  Each variant exercises    *)
(* one aspect of the row exchange.                                         *)
(***************************************************************************)
Base4(a) ==
    [addr |-> V4(a), hwaddr |-> HWAddr(Bytes(6), HTYPE_ETHER, HWADDR_SOURCE_UNKNOWN),
     client_id |-> Id(<<1, 2>>), valid_lft |-> U32(2), cltt |-> 1, subnet_id |-> 1,
     fqdn_fwd |-> TRUE, fqdn_rev |-> FALSE, hostname |-> "h1",
     state |-> STATE_DEFAULT, ctx |-> NullCtx]

Lease4Variants(a) ==
    LET b == Base4(a)
    IN { b,
         [b EXCEPT !.hostname = "h2", !.fqdn_rev = TRUE,
                   !.ctx = Ctx(MapElement({[k |-> "b", v |-> 2], [k |-> "a", v |-> 1]}))],
         [b EXCEPT !.hwaddr = NullHWAddr, !.client_id = NullId, !.valid_lft = INFINITY_LFT,
                   !.state = STATE_DECLINED, !.ctx = Ctx(MapElement({}))],
         [b EXCEPT !.hwaddr = HWAddr(Bytes(6), HTYPE_IEEE802, HWADDR_SOURCE_UNKNOWN),
                   !.state = STATE_EXPIRED_RECLAIMED, !.cltt = 0, !.valid_lft = U32(1)],
         [b EXCEPT !.hwaddr = HWAddr(Bytes(MAX_HWADDR_LEN + 1), HTYPE_ETHER, HWADDR_SOURCE_UNKNOWN)],
         [b EXCEPT !.ctx = Ctx(StringElement("x")), !.subnet_id = 2],
         [b EXCEPT !.hwaddr = HWAddr(<<>>, HTYPE_ETHER, HWADDR_SOURCE_UNKNOWN),
                   !.state = STATE_EXPIRED_RECLAIMED],
         [b EXCEPT !.hwaddr = HWAddr(Bytes(MAX_HWADDR_LEN), HTYPE_ETHER, HWADDR_SOURCE_UNKNOWN),
                   !.state = STATE_EXPIRED_RECLAIMED, !.valid_lft = INFINITY_LFT, !.cltt = 0] }

Base6(a) ==
    [type |-> TYPE_NA, addr |-> V6(0, a), duid |-> Id(<<1, 2, 3>>), iaid |-> U32(1),
     preferred_lft |-> 1, valid_lft |-> U32(2), cltt |-> 1, subnet_id |-> 1,
     fqdn_fwd |-> TRUE, fqdn_rev |-> FALSE, hostname |-> "h1", hwaddr |-> NullHWAddr,
     prefixlen |-> 128, state |-> STATE_DEFAULT, ctx |-> NullCtx]

Lease6Variants(a) ==
    LET b == Base6(a)
    IN { b,
         [b EXCEPT !.hostname = "h2", !.iaid = [hi |-> 65535, lo |-> 65535],
                   !.hwaddr = HWAddr(Bytes(6), HTYPE_ETHER, HWADDR_SOURCE_DUID),
                   !.ctx = Ctx(MapElement({[k |-> "a", v |-> 1]}))],
         [b EXCEPT !.type = TYPE_PD, !.prefixlen = 64, !.valid_lft = INFINITY_LFT,
                   !.iaid = [hi |-> 32768, lo |-> 0], !.state = STATE_DECLINED],
         [b EXCEPT !.duid = NullId],
         [b EXCEPT !.hwaddr = HWAddr(<<>>, HTYPE_ETHER, HWADDR_SOURCE_DUID),
                   !.state = STATE_EXPIRED_RECLAIMED, !.cltt = 0, !.valid_lft = U32(1)],
         [b EXCEPT !.hwaddr = HWAddr(Bytes(MAX_HWADDR_LEN + 1), HTYPE_ETHER, HWADDR_SOURCE_DUID)],
         [b EXCEPT !.type = TYPE_TA, !.ctx = Ctx(IntElement(5)),
                   !.state = STATE_EXPIRED_RECLAIMED] }

Addrs == 1..MaxAddr
Lease4Inputs == UNION {Lease4Variants(a) : a \in Addrs}
Lease6Inputs == UNION {Lease6Variants(a) : a \in Addrs}
LeaseInputs(f) == IF f = 4 THEN Lease4Inputs ELSE Lease6Inputs
AddrInputs(f) == IF f = 4 THEN {V4(a) : a \in Addrs} ELSE {V6(0, a) : a \in Addrs}

(***************************************************************************)
(* Row exchange: PgSqlLease4Exchange / PgSqlLease6Exchange.                *)
(***************************************************************************)
\* PgSqlExchange::convertToDatabaseTime(cltt, valid_lifetime): the expiration time
convertToDatabaseTime(cltt, valid_lft) == cltt + valid_lft

\* faulty variant: the infinite sentinel adds nothing to the expiration
ExpireLifetime_Dropped(valid_lft) ==
    IF valid_lft = INFINITY_LFT THEN 0 ELSE U32Val(valid_lft)

\* the valid lifetime used for the expiration: the infinite sentinel is replaced
ExpireLifetime(valid_lft) ==
    IF valid_lft = INFINITY_LFT THEN FIVEHUNDREDDAYS ELSE U32Val(valid_lft)

\* faulty variant: a narrowing conversion, values from 2^31 on become the largest integer
UiaidToSigned_Narrowed(u) == IF u.hi >= 32768 THEN 2147483647 ELSE U32Val(u)

\* union Uiaid: the unsigned IAID read as a signed 32-bit integer, and back
UiaidToSigned(u) == IF u.hi >= 32768 THEN (u.hi - 65536) * 65536 + u.lo ELSE U32Val(u)
UiaidToUnsigned(i) ==
    IF i < 0 THEN [hi |-> (i \div 65536) + 65536, lo |-> i % 65536]
    ELSE U32(i)

\* the hwaddr column bound for a lease: empty unless a non-empty address is present
HWAddrColumn(lease) ==
    IF ~lease.hwaddr.null /\ Len(lease.hwaddr.hwaddr) # 0 THEN lease.hwaddr.hwaddr ELSE <<>>

\* faulty variant: the length of the hardware address is not checked
HWAddrTooLong_Unchecked(lease) == FALSE

\* the length check of createBindForSend on the hardware address
HWAddrTooLong(lease) ==
    ~lease.hwaddr.null /\ Len(lease.hwaddr.hwaddr) # 0
        /\ Len(lease.hwaddr.hwaddr) > MAX_HWADDR_LEN

\* faulty variant: the user context is not bound
UserContextColumn_Dropped(lease) == <<>>

UserContextColumn(lease) == IF ~lease.ctx.null THEN ElementStr(lease.ctx.e) ELSE <<>>

\* PgSqlLease4Exchange::createBindForSend: does it return (TRUE) or throw DbOperationError
Lease4BindOK(lease) == ~HWAddrTooLong(lease)

\* PgSqlLease4Exchange::createBindForSend: the bind array, in column order
Lease4Bind(lease) ==
    [address |-> toUint32(lease.addr),
     hwaddr |-> HWAddrColumn(lease),
     client_id |-> IF ~lease.client_id.null THEN lease.client_id.id ELSE <<>>,
     valid_lifetime |-> lease.valid_lft,
     expire |-> convertToDatabaseTime(lease.cltt, ExpireLifetime(lease.valid_lft)),
     subnet_id |-> lease.subnet_id,
     fqdn_fwd |-> lease.fqdn_fwd,
     fqdn_rev |-> lease.fqdn_rev,
     hostname |-> lease.hostname,
     state |-> lease.state,
     user_context |-> UserContextColumn(lease)]

\* the user_context column read back: absent, a map, or a conversion failure
ReadContext(text) ==
    IF Len(text) = 0 THEN [ok |-> TRUE, ctx |-> NullCtx]
    ELSE LET e == ElementFromJSON(text)
         IN IF e.type # "map" THEN [ok |-> FALSE, ctx |-> NullCtx]
            ELSE [ok |-> TRUE, ctx |-> Ctx(e)]

\* PgSqlLease4Exchange::convertFromDatabase; ok = FALSE is the DbOperationError it throws
Lease4FromRow(r) ==
    LET c == ReadContext(r.user_context)
    IN [ok |-> c.ok,
        lease |-> [addr |-> V4(r.address),
                   hwaddr |-> HWAddr(r.hwaddr, HTYPE_ETHER, HWADDR_SOURCE_UNKNOWN),
                   client_id |-> IF Len(r.client_id) # 0 THEN Id(r.client_id) ELSE NullId,
                   valid_lft |-> r.valid_lifetime,
                   cltt |-> r.expire - ExpireLifetime(r.valid_lifetime),
                   subnet_id |-> r.subnet_id,
                   fqdn_fwd |-> r.fqdn_fwd,
                   fqdn_rev |-> r.fqdn_rev,
                   hostname |-> r.hostname,
                   state |-> r.state,
                   ctx |-> c.ctx]]

\* PgSqlLease6Exchange::createBindForSend: does it return (TRUE) or throw DbOperationError
Lease6BindOK(lease) == ~lease.duid.null /\ ~HWAddrTooLong(lease)

\* PgSqlLease6Exchange::createBindForSend: the bind array, in column order
Lease6Bind(lease) ==
    [address |-> toText(lease.addr),
     duid |-> lease.duid.id,
     valid_lifetime |-> lease.valid_lft,
     expire |-> convertToDatabaseTime(lease.cltt, ExpireLifetime(lease.valid_lft)),
     subnet_id |-> lease.subnet_id,
     pref_lifetime |-> lease.preferred_lft,
     lease_type |-> lease.type,
     iaid |-> UiaidToSigned(lease.iaid),
     prefix_len |-> lease.prefixlen,
     fqdn_fwd |-> lease.fqdn_fwd,
     fqdn_rev |-> lease.fqdn_rev,
     hostname |-> lease.hostname,
     hwaddr |-> HWAddrColumn(lease),
     hwtype |-> IF ~lease.hwaddr.null THEN lease.hwaddr.htype ELSE HTYPE_UNDEFINED,
     hwaddr_source |-> IF ~lease.hwaddr.null THEN lease.hwaddr.source ELSE HWADDR_SOURCE_UNKNOWN,
     state |-> lease.state,
     user_context |-> UserContextColumn(lease)]

\* PgSqlLease6Exchange::getLeaseTypeColumnValue: only NA, TA and PD are lease types
LeaseTypeOK(raw) == raw \in {TYPE_NA, TYPE_TA, TYPE_PD}

\* PgSqlLease6Exchange::convertFromDatabase; ok = FALSE is the DbOperationError it throws
Lease6FromRow(r) ==
    LET c == ReadContext(r.user_context)
    IN [ok |-> c.ok /\ LeaseTypeOK(r.lease_type),
        lease |-> [type |-> r.lease_type,
                   addr |-> getIPv6Value(r.address),
                   duid |-> Id(r.duid),
                   iaid |-> UiaidToUnsigned(r.iaid),
                   preferred_lft |-> r.pref_lifetime,
                   valid_lft |-> r.valid_lifetime,
                   cltt |-> r.expire - ExpireLifetime(r.valid_lifetime),
                   subnet_id |-> r.subnet_id,
                   fqdn_fwd |-> r.fqdn_fwd,
                   fqdn_rev |-> r.fqdn_rev,
                   hostname |-> r.hostname,
                   hwaddr |-> IF Len(r.hwaddr) # 0
                              THEN HWAddr(r.hwaddr, r.hwtype, r.hwaddr_source)
                              ELSE NullHWAddr,
                   prefixlen |-> r.prefix_len,
                   state |-> r.state,
                   ctx |-> c.ctx]]

\* the exchange of the family in use
BindOK(f, lease) == IF f = 4 THEN Lease4BindOK(lease) ELSE Lease6BindOK(lease)
Bind(f, lease) == IF f = 4 THEN Lease4Bind(lease) ELSE Lease6Bind(lease)
FromRow(f, r) == IF f = 4 THEN Lease4FromRow(r) ELSE Lease6FromRow(r)
\* the value bound for an address in a WHERE clause
AddrKey(f, a) == IF f = 4 THEN toUint32(a) ELSE toText(a)

(***************************************************************************)
(* The statement catalog, executed on the lease table: a set of rows with  *)
(* the address column as primary key.                                      *)
(***************************************************************************)
\* INSERT_LEASE4 / INSERT_LEASE6: a row with the address of a stored row is a duplicate key
InsertIsDuplicate(t, row) == \E r \in t : r.address = row.address
\* faulty variant: an insert that overwrites the row of a stored address
InsertLease_Upsert(t, row) == {r \in t : r.address # row.address} \cup {row}

InsertLease(t, row) == IF InsertIsDuplicate(t, row) THEN t ELSE t \cup {row}

\* UPDATE_LEASE4 / UPDATE_LEASE6: "UPDATE ... SET <all columns> WHERE address = $n"
UpdateAffected(t, where) == {r \in t : r.address = where}
\* faulty variant: an UPDATE without its WHERE clause
UpdateLeaseStmt_NoWhere(t, row, where) == IF t = {} THEN t ELSE {row}

UpdateLeaseStmt(t, row, where) ==
    IF UpdateAffected(t, where) = {} THEN t ELSE (t \ UpdateAffected(t, where)) \cup {row}

\* DELETE_LEASE4 / DELETE_LEASE6: "DELETE FROM lease WHERE address = $1"
DeleteLeaseRows(t, where) == {r \in t : r.address = where}

\* faulty variant: the state column is not part of the WHERE clause
DeleteStateExpiredRows_AnyState(t, state, expire) == {r \in t : r.expire < expire}

\* DELETE_LEASE4_STATE_EXPIRED / DELETE_LEASE6_STATE_EXPIRED:
\* "DELETE FROM lease WHERE state = $1 AND expire < $2"
DeleteStateExpiredRows(t, state, expire) == {r \in t : r.state = state /\ r.expire < expire}

\* GET_LEASE4_ADDR: "... WHERE address = $1"
GetLease4AddrRows(t, address) == {r \in t : r.address = address}

\* GET_LEASE6_ADDR: "... WHERE address = $1 AND lease_type = $2"
GetLease6AddrRows(t, address, type) == {r \in t : r.address = address /\ r.lease_type = type}

\* order of two values of the address column: BIGINT for lease4, VARCHAR for lease6
AddressColumnLess(f, x, y) == IF f = 4 THEN x < y ELSE TextLess(x, y)

\* "ORDER BY address LIMIT $2" over the selected rows
RECURSIVE OrderByAddressLimit(_, _, _)
OrderByAddressLimit(f, rows, limit) ==
    IF rows = {} \/ limit = 0 THEN <<>>
    ELSE LET m == CHOOSE r \in rows :
                      \A q \in rows \ {r} : AddressColumnLess(f, r.address, q.address)
         IN <<m>> \o OrderByAddressLimit(f, rows \ {m}, limit - 1)

\* faulty variant: the lower bound itself is selected again
GetLease4PageRows_Inclusive(t, address, limit) ==
    OrderByAddressLimit(4, {r \in t : r.address >= address}, limit)

\* GET_LEASE4_PAGE: "... FROM lease4 WHERE address > $1 ORDER BY address LIMIT $2"
GetLease4PageRows(t, address, limit) ==
    OrderByAddressLimit(4, {r \in t : r.address > address}, limit)

\* GET_LEASE6_PAGE: "... FROM lease6 WHERE address > $1 ORDER BY address LIMIT $2"
GetLease6PageRows(t, address, limit) ==
    OrderByAddressLimit(6, {r \in t : TextLess(address, r.address)}, limit)

(***************************************************************************)
(* PgSqlLeaseMgr.                                                          *)
(***************************************************************************)
Result(status, found, lease) == [status |-> status, found |-> found, lease |-> lease]
NoLease == [addr |-> V4(0)]

\* faulty variant: several rows are not an error, one of them is returned
GetLeaseSingle_Any(f, rows) ==
    IF rows = {} THEN Result("ok", FALSE, NoLease)
    ELSE LET c == FromRow(f, CHOOSE r \in rows : TRUE)
         IN IF c.ok THEN Result("ok", TRUE, c.lease)
            ELSE Result("DbOperationError", FALSE, NoLease)

\* getLeaseCollection(single = true) and getLease: no row, the one row converted, or an error
GetLeaseSingle(f, rows) ==
    IF Cardinality(rows) > 1 THEN Result("MultipleRecords", FALSE, NoLease)
    ELSE IF rows = {} THEN Result("ok", FALSE, NoLease)
    ELSE LET c == FromRow(f, CHOOSE r \in rows : TRUE)
         IN IF c.ok THEN Result("ok", TRUE, c.lease)
            ELSE Result("DbOperationError", FALSE, NoLease)

\* getLease4(addr)
getLease4(t, addr) == GetLeaseSingle(4, GetLease4AddrRows(t, toUint32(addr)))

\* getLease6(lease_type, addr)
getLease6(t, type, addr) == GetLeaseSingle(6, GetLease6AddrRows(t, toText(addr), type))

\* the lookup of a lease by its own key: getLease4(L.addr) / getLease6(L.type, L.addr)
getLeaseOf(f, t, lease) ==
    IF f = 4 THEN getLease4(t, lease.addr) ELSE getLease6(t, lease.type, lease.addr)

\* getLeaseCollection(single = false): every row converted, in the order of the result set
GetLeaseCollection(f, rows) ==
    IF \E i \in 1..Len(rows) : ~FromRow(f, rows[i]).ok
    THEN [status |-> "DbOperationError", leases |-> <<>>]
    ELSE [status |-> "ok", leases |-> [i \in 1..Len(rows) |-> FromRow(f, rows[i]).lease]]

\* faulty variant: the family of the lower bound is not looked at
getLeases4_AnyFamily(t, lower_bound_address, page_size) ==
    GetLeaseCollection(4, GetLease4PageRows(t, toUint32(lower_bound_address), page_size))

\* getLeases4(lower_bound_address, page_size)
getLeases4(t, lower_bound_address, page_size) ==
    IF ~isV4(lower_bound_address)
    THEN [status |-> "InvalidAddressFamily", leases |-> <<>>]
    ELSE GetLeaseCollection(4, GetLease4PageRows(t, toUint32(lower_bound_address), page_size))

\* faulty variant: the zero address is bound as its text "::"
getLeases6_ZeroAsText(t, lower_bound_address, page_size) ==
    IF ~isV6(lower_bound_address)
    THEN [status |-> "InvalidAddressFamily", leases |-> <<>>]
    ELSE GetLeaseCollection(6, GetLease6PageRows(t, toText(lower_bound_address), page_size))

\* getLeases6(lower_bound_address, page_size): the zero address is bound as "0"
getLeases6(t, lower_bound_address, page_size) ==
    IF ~isV6(lower_bound_address)
    THEN [status |-> "InvalidAddressFamily", leases |-> <<>>]
    ELSE GetLeaseCollection(6, GetLease6PageRows(t,
                                   IF isV6Zero(lower_bound_address) THEN <<48>>
                                   ELSE toText(lower_bound_address),
                                   page_size))

\* faulty variant: a duplicate key is not told apart from success
addLeaseCommon_Blind(t, row) == TRUE

\* addLeaseCommon: true when the row was inserted, false on a duplicate key
addLeaseCommon(t, row) == ~InsertIsDuplicate(t, row)

\* faulty variant: zero affected rows pass silently
updateLeaseCommon_Silent(affected_rows) ==
    IF affected_rows <= 1 THEN "ok" ELSE "DbOperationError"

\* updateLeaseCommon: the outcome for a number of affected rows
updateLeaseCommon(affected_rows) ==
    IF affected_rows = 1 THEN "ok"
    ELSE IF affected_rows = 0 THEN "NoSuchLease"
    ELSE "DbOperationError"

\* deleteExpiredReclaimedLeasesCommon: the rows deleted at time now
ExpiredReclaimedRows(t, secs, now) == DeleteStateExpiredRows(t, STATE_EXPIRED_RECLAIMED, now - secs)

(***************************************************************************)
(* The in-memory configuration store, TestConfigBackendDHCPv4.  A          *)
(* collection is the sequence of its entities in insertion order; an       *)
(* entity is a record carrying its set of server tags.                     *)
(***************************************************************************)
NullPtr == [null |-> TRUE]

\* db::ServerSelector: ALL carries the tag "all", ONE(x) the tag x
SelectorALL == [type |-> "ALL", tags |-> {"all"}]
SelectorONE(x) == [type |-> "SUBSET", tags |-> {x}]
getTags(server_selector) == server_selector.tags

ServerTags == {"srvA", "srvB"}
Selectors == {SelectorALL} \cup {SelectorONE(x) : x \in ServerTags}

hasServerTag(e, tag) == tag \in e.tags
hasAllServerTag(e) == "all" \in e.tags
setServerTag(e, tag) == [e EXCEPT !.tags = @ \cup {tag}]

\* the tag a write or delete is scoped to: the selector's single tag, "all" for ALL
getServerTag(server_selector) == CHOOSE tag \in getTags(server_selector) : TRUE

\* the new entity takes over the server tags of the entity it replaces
copyServerTags(old, new) == [new EXCEPT !.tags = @ \cup old.tags]
\* the entity is associated with every tag of the selector
mergeServerTags(e, server_selector) == [e EXCEPT !.tags = @ \cup getTags(server_selector)]

Indices(c) == 1..Len(c)
MinOf(S) == CHOOSE i \in S : \A j \in S : i <= j
MaxOf(S) == CHOOSE i \in S : \A j \in S : i >= j

\* Subnet4Collection: the subnet ID index and the prefix index are both unique, so an
\* insert or a replace that would give two subnets one ID or one prefix is rejected
SubnetClash(a, b) == a.id = b.id \/ a.prefix = b.prefix
SubnetInsert(c, subnet) ==
    IF \E i \in Indices(c) : SubnetClash(c[i], subnet) THEN c ELSE Append(c, subnet)
SubnetReplace(c, pos, subnet) ==
    IF \E i \in Indices(c) \ {pos} : SubnetClash(c[i], subnet) THEN c
    ELSE [c EXCEPT ![pos] = subnet]

\* getSubnet4(server_selector, subnet_prefix): the selector is not used
getSubnet4Prefix(c, server_selector, subnet_prefix) ==
    IF \E i \in Indices(c) : c[i].prefix = subnet_prefix
    THEN c[CHOOSE i \in Indices(c) : c[i].prefix = subnet_prefix]
    ELSE NullPtr

\* faulty variant: a subnet is returned only to a selector it is owned by
getSubnet4_Owned(c, server_selector, subnet_id) ==
    IF \E i \in Indices(c) : /\ c[i].id = subnet_id
                             /\ \/ hasAllServerTag(c[i])
                                \/ \E tag \in getTags(server_selector) : hasServerTag(c[i], tag)
    THEN c[CHOOSE i \in Indices(c) : c[i].id = subnet_id]
    ELSE NullPtr

\* getSubnet4(server_selector, subnet_id): the selector is not used
getSubnet4(c, server_selector, subnet_id) ==
    IF \E i \in Indices(c) : c[i].id = subnet_id
    THEN c[CHOOSE i \in Indices(c) : c[i].id = subnet_id]
    ELSE NullPtr

\* faulty variant: the last entry that matches wins, explicit tag or all servers
getOptionDef4_LastMatch(c, server_selector, code, space) ==
    LET range == {i \in Indices(c) : c[i].code = code /\ c[i].space = space}
        matches == {i \in range : \/ hasAllServerTag(c[i])
                                  \/ \E tag \in getTags(server_selector) : hasServerTag(c[i], tag)}
    IN IF matches # {} THEN c[MaxOf(matches)] ELSE NullPtr

\* getOptionDef4(server_selector, code, space): the first entry of the code and space
\* owning a tag of the selector, else the last such entry owned by all servers
getOptionDef4(c, server_selector, code, space) ==
    LET range == {i \in Indices(c) : c[i].code = code /\ c[i].space = space}
        explicit == {i \in range : \E tag \in getTags(server_selector) : hasServerTag(c[i], tag)}
        candidates == {i \in range : hasAllServerTag(c[i])}
    IN IF explicit # {} THEN c[MinOf(explicit)]
       ELSE IF candidates # {} THEN c[MaxOf(candidates)]
       ELSE NullPtr

\* getOption4(server_selector, code, space)
getOption4(c, server_selector, code, space) ==
    LET range == {i \in Indices(c) : c[i].code = code /\ c[i].space = space}
        explicit == {i \in range : \E tag \in getTags(server_selector) : hasServerTag(c[i], tag)}
        candidates == {i \in range : hasAllServerTag(c[i])}
    IN IF explicit # {} THEN c[MinOf(explicit)]
       ELSE IF candidates # {} THEN c[MaxOf(candidates)]
       ELSE NullPtr

\* getGlobalParameter4(server_selector, name)
getGlobalParameter4(c, server_selector, name) ==
    LET range == {i \in Indices(c) : c[i].name = name}
        explicit == {i \in range : \E tag \in getTags(server_selector) : hasServerTag(c[i], tag)}
        candidates == {i \in range : hasAllServerTag(c[i])}
    IN IF explicit # {} THEN c[MinOf(explicit)]
       ELSE IF candidates # {} THEN c[MaxOf(candidates)]
       ELSE NullPtr

\* faulty variant: the tags of the replaced subnet are not copied
createUpdateSubnet4_NoCopy(c, server_selector, subnet) ==
    IF \E i \in Indices(c) : c[i].id = subnet.id
    THEN SubnetReplace(c, CHOOSE i \in Indices(c) : c[i].id = subnet.id,
                       mergeServerTags(subnet, server_selector))
    ELSE SubnetInsert(c, mergeServerTags(subnet, server_selector))

\* createUpdateSubnet4(server_selector, subnet): the collection afterwards
createUpdateSubnet4(c, server_selector, subnet) ==
    IF \E i \in Indices(c) : c[i].id = subnet.id
    THEN LET pos == CHOOSE i \in Indices(c) : c[i].id = subnet.id
         IN SubnetReplace(c, pos,
                          mergeServerTags(copyServerTags(c[pos], subnet), server_selector))
    ELSE SubnetInsert(c, mergeServerTags(subnet, server_selector))

\* faulty variant: every definition is appended, none replaced
createUpdateOptionDef4_Append(c, server_selector, option_def) ==
    Append(c, setServerTag(option_def, getServerTag(server_selector)))

\* createUpdateOptionDef4(server_selector, option_def): the collection afterwards
createUpdateOptionDef4(c, server_selector, option_def) ==
    LET tag == getServerTag(server_selector)
        def == setServerTag(option_def, tag)
        byCode == {i \in Indices(c) : /\ c[i].code = def.code
                                      /\ c[i].space = def.space
                                      /\ hasServerTag(c[i], tag)}
        byName == {i \in Indices(c) : /\ c[i].name = def.name
                                      /\ c[i].space = def.space
                                      /\ hasServerTag(c[i], tag)}
    IN IF byCode # {} THEN [c EXCEPT ![MinOf(byCode)] = def]
       ELSE IF byName # {} THEN [c EXCEPT ![MinOf(byName)] = def]
       ELSE Append(c, def)

\* createUpdateOption4(server_selector, option): the collection of global options afterwards
createUpdateOption4(c, server_selector, option) ==
    LET tag == getServerTag(server_selector)
        opt == setServerTag(option, tag)
        found == {i \in Indices(c) : /\ c[i].code = opt.code
                                     /\ c[i].space = opt.space
                                     /\ hasServerTag(c[i], tag)}
    IN IF found # {} THEN [c EXCEPT ![MinOf(found)] = opt] ELSE Append(c, opt)

\* createUpdateGlobalParameter4(server_selector, value): the collection afterwards
createUpdateGlobalParameter4(c, server_selector, value) ==
    LET tag == getServerTag(server_selector)
        val == setServerTag(value, tag)
        found == {i \in Indices(c) : c[i].name = val.name /\ hasServerTag(c[i], tag)}
    IN IF found # {} THEN [c EXCEPT ![MinOf(found)] = val] ELSE Append(c, val)

\* deleteSubnet4(server_selector, subnet_prefix) / deleteSubnet4(server_selector, subnet_id)
deleteSubnet4Prefix(c, server_selector, subnet_prefix) ==
    SelectSeq(c, LAMBDA e : e.prefix # subnet_prefix)
deleteSubnet4(c, server_selector, subnet_id) ==
    SelectSeq(c, LAMBDA e : e.id # subnet_id)

\* deleteAllSubnets4(server_selector): the selector is not used
deleteAllSubnets4(c, server_selector) == <<>>

\* faulty variant: the entries of the code and space are erased whoever owns them
deleteOptionDef4_AnyTag(c, server_selector, code, space) ==
    SelectSeq(c, LAMBDA e : ~(e.code = code /\ e.space = space))

\* deleteOptionDef4(server_selector, code, space)
deleteOptionDef4(c, server_selector, code, space) ==
    SelectSeq(c, LAMBDA e : ~(/\ e.code = code
                              /\ e.space = space
                              /\ hasServerTag(e, getServerTag(server_selector))))

\* deleteOption4(server_selector, code, space)
deleteOption4(c, server_selector, code, space) ==
    SelectSeq(c, LAMBDA e : ~(/\ e.code = code
                              /\ e.space = space
                              /\ hasServerTag(e, getServerTag(server_selector))))

\* deleteGlobalParameter4(server_selector, name): the first entry of the name owning the tag
deleteGlobalParameter4(c, server_selector, name) ==
    LET found == {i \in Indices(c) : /\ c[i].name = name
                                     /\ hasServerTag(c[i], getServerTag(server_selector))}
    IN IF found = {} THEN c
       ELSE SubSeq(c, 1, MinOf(found) - 1) \o SubSeq(c, MinOf(found) + 1, Len(c))

(***************************************************************************)
(* The lease store as a state machine.  last records the latest call.      *)
(***************************************************************************)
Call(op, lease, addr, status, ret, n, now, secs) ==
    [op |-> op, lease |-> lease, addr |-> addr, status |-> status, ret |-> ret,
     n |-> n, now |-> now, secs |-> secs]

CfgIdle == UNCHANGED <<subnets_, shared_networks_, option_defs_, options_, globals_, cfg_last>>
LeaseIdle == UNCHANGED <<family, table, last, stats_query, mgr>>

\* addLease(lease)
AddLease(lease) ==
    /\ IF ~BindOK(family, lease)
       THEN /\ table' = table
            /\ last' = Call("add", lease, lease.addr, "DbOperationError", FALSE, 0, 0, 0)
       ELSE /\ table' = InsertLease(table, Bind(family, lease))
            /\ last' = Call("add", lease, lease.addr, "ok",
                            addLeaseCommon(table, Bind(family, lease)), 0, 0, 0)
    /\ UNCHANGED <<family, page, stats_query, mgr>>
    /\ CfgIdle

\* updateLease4(lease) / updateLease6(lease)
UpdateLease(lease) ==
    /\ IF ~BindOK(family, lease)
       THEN /\ table' = table
            /\ last' = Call("update", lease, lease.addr, "DbOperationError", FALSE, 0, 0, 0)
       ELSE LET where == AddrKey(family, lease.addr)
                n == Cardinality(UpdateAffected(table, where))
            IN /\ table' = UpdateLeaseStmt(table, Bind(family, lease), where)
               /\ last' = Call("update", lease, lease.addr, updateLeaseCommon(n),
                               updateLeaseCommon(n) = "ok", n, 0, 0)
    /\ UNCHANGED <<family, page, stats_query, mgr>>
    /\ CfgIdle

\* deleteLease(addr)
DeleteLease(addr) ==
    LET gone == DeleteLeaseRows(table, AddrKey(family, addr))
    IN /\ table' = table \ gone
       /\ last' = Call("delete", NoLease, addr, "ok", Cardinality(gone) > 0,
                       Cardinality(gone), 0, 0)
       /\ UNCHANGED <<family, page, stats_query, mgr>>
       /\ CfgIdle

\* deleteExpiredReclaimedLeases4(secs) / deleteExpiredReclaimedLeases6(secs) at time(NULL) = now
DeleteExpiredReclaimedLeases(secs, now) ==
    LET gone == ExpiredReclaimedRows(table, secs, now)
    IN /\ table' = table \ gone
       /\ last' = Call("reclaim", NoLease, V4(0), "ok", TRUE, Cardinality(gone), now, secs)
       /\ UNCHANGED <<family, page, stats_query, mgr>>
       /\ CfgIdle

NoCall == Call("none", NoLease, V4(0), "ok", FALSE, 0, 0, 0)
\* the lease manager after its construction succeeded
Constructed == [pc |-> "done", status |-> "ok"]
\* no statistics query has been created
NoStats == [created |-> FALSE]
NoPage == [lower |-> V4(0), size |-> 0, seen |-> <<>>, done |-> FALSE, calls |-> 0]
CfgEmpty ==
    /\ subnets_ = <<>>
    /\ shared_networks_ = <<>>
    /\ option_defs_ = <<>>
    /\ options_ = <<>>
    /\ globals_ = <<>>
    /\ cfg_last = [op |-> "none", sel |-> [type |-> "ALL", tags |-> {"all"}], arg |-> [null |-> TRUE], n |-> 0]

Init ==
    /\ family \in {4, 6}
    /\ table = {}
    /\ last = NoCall
    /\ page = NoPage
    /\ stats_query = NoStats
    /\ mgr = Constructed
    /\ CfgEmpty

Next ==
    \/ \E lease \in LeaseInputs(family) : AddLease(lease)
    \/ \E lease \in LeaseInputs(family) : UpdateLease(lease)
    \/ \E addr \in AddrInputs(family) : DeleteLease(addr)
    \/ \E secs \in 0..MaxSecs, now \in 0..MaxNow : DeleteExpiredReclaimedLeases(secs, now)

Spec == Init /\ [][Next]_vars

(***************************************************************************)
(* Claims about the lease store, checked under Spec.                       *)
(***************************************************************************)
\* the address of the latest call's lease was stored before the call / is stored now
StoredBefore(lease) == \E r \in table : r.address = AddrKey(family, lease.addr)
OtherRows(t, lease) == {r \in t : r.address # AddrKey(family, lease.addr)}
AddressesOf(t) == {r.address : r \in t}

\* the latest call was an addLease of a lease whose address was not stored before it
AddedFresh == last.op = "add" /\ ~(last.status = "ok" /\ ~last.ret)

\* C1 as stated: for every lease L whose address is not yet stored, addLease(L)
\* followed by getLease4(L.addr) / getLease6(L.type, L.addr) returns a lease equal
\* to L in every field, the hardware address type and the user context included.
C1_RoundTripEveryField ==
    AddedFresh => getLeaseOf(family, table, last.lease) = Result("ok", TRUE, last.lease)

\* what the store hands back for the hardware address of a lease it accepted
StoredHWAddr(f, lease) ==
    IF f = 4
    THEN HWAddr(HWAddrColumn(lease), HTYPE_ETHER, HWADDR_SOURCE_UNKNOWN)
    ELSE IF lease.hwaddr.null \/ Len(lease.hwaddr.hwaddr) = 0 THEN NullHWAddr ELSE lease.hwaddr

ContextReadable(lease) == lease.ctx.null \/ lease.ctx.e.type = "map"

\* C1 (amended): for every lease L that createBindForSend accepts (hardware address
\* of at most MAX_HWADDR_LEN bytes, DUID present for v6), whose user context is
\* absent or a JSON map and whose address is not yet stored, addLease(L) returns
\* true and the following getLease4 / getLease6 returns a lease equal to L in every
\* field (client id / DUID, IAID, lifetimes, cltt, subnet id, FQDN flags, hostname,
\* state, user context as the same JSON structure or absent) except the hardware
\* address: its bytes come back, but a v4 lease always comes back with a present
\* hardware address of type Ethernet (empty if L had none), and a v6 lease with an
\* empty hardware address comes back with none.
C1_RoundTrip ==
    (AddedFresh /\ BindOK(family, last.lease) /\ ContextReadable(last.lease))
        => /\ last.status = "ok"
           /\ last.ret
           /\ getLeaseOf(family, table, last.lease)
                  = Result("ok", TRUE,
                           [last.lease EXCEPT !.hwaddr = StoredHWAddr(family, last.lease)])

\* an accepted lease with a JSON map as user context and a hardware address was
\* added and is read back
C1_Witness ==
    /\ AddedFresh
    /\ last.ret
    /\ ~last.lease.ctx.null
    /\ last.lease.ctx.e.type = "map"
    /\ last.lease.ctx.e.m # {}
    /\ ~last.lease.hwaddr.null
    /\ getLeaseOf(family, table, last.lease).found

\* C2: addLease of a lease whose address is not stored returns true and stores
\* its row; addLease of a (marshallable) lease whose address is already stored
\* returns false, raises no error and leaves the whole table, the stored row of
\* that address included, as it was.
C2_DuplicateAdd ==
    [][(last'.op = "add" /\ BindOK(family, last'.lease))
          => /\ last'.status = "ok"
             /\ last'.ret = ~StoredBefore(last'.lease)
             /\ StoredBefore(last'.lease) => table' = table
             /\ ~StoredBefore(last'.lease) => table' = table \cup {Bind(family, last'.lease)}]_vars

\* a second addLease for a stored address, with a lease that differs from the stored one
C2_Witness ==
    /\ last.op = "add"
    /\ last.status = "ok"
    /\ ~last.ret
    /\ Bind(family, last.lease) \notin table
    /\ \E r \in table : r.address = AddrKey(family, last.lease.addr)

\* C3: updateLease4 / updateLease6 of a marshallable lease succeeds exactly when one
\* stored row has the lease's address; with no such row it fails with NoSuchLease
\* and the table is unchanged; more than one affected row is a DbOperationError.
C3_UpdateOutcome ==
    [][(last'.op = "update" /\ BindOK(family, last'.lease))
          => LET n == Cardinality({r \in table : r.address = AddrKey(family, last'.lease.addr)})
             IN /\ (last'.status = "ok") <=> (n = 1)
                /\ last'.n = n
                /\ (n = 0) => (last'.status = "NoSuchLease" /\ table' = table)
                /\ (n > 1) => last'.status = "DbOperationError"
                /\ \A k \in 2..(MaxAddr + 2) : updateLeaseCommon(k) = "DbOperationError"]_vars

\* an update of an address that is not stored, while other leases are
C3_Witness ==
    /\ last.op = "update"
    /\ last.status = "NoSuchLease"
    /\ table # {}

\* C5: deleteExpiredReclaimedLeases4/6(secs) at time now removes exactly the rows
\* whose state is expired-reclaimed and whose expiration is earlier than now - secs,
\* returns their number, and leaves every other row in the table unchanged.
C5_ReclaimExact ==
    [][(last'.op = "reclaim")
          => LET cutoff == last'.now - last'.secs
                 gone == {r \in table : r.state = STATE_EXPIRED_RECLAIMED /\ r.expire < cutoff}
             IN /\ table' = table \ gone
                /\ last'.n = Cardinality(gone)
                /\ last'.status = "ok"
                /\ \A r \in table :
                       (r.state # STATE_EXPIRED_RECLAIMED \/ r.expire >= cutoff) => r \in table']_vars

\* a sweep with secs > 0 that removed a lease and kept a reclaimed lease whose
\* expiration is not earlier than now - secs
C5_Witness ==
    /\ last.op = "reclaim"
    /\ last.n > 0
    /\ last.secs > 0
    /\ \E r \in table : r.state = STATE_EXPIRED_RECLAIMED /\ r.expire >= last.now - last.secs

\* C10: after a successful updateLease4 / updateLease6 the next getLease by the
\* lease's address reads the row just written (its hostname, subnet id, lifetimes
\* and state are the new ones), the set of stored addresses is the same as before
\* the call, and every row at another address is unchanged.
C10_UpdateFrame ==
    [][(last'.op = "update" /\ last'.status = "ok")
          => LET L == last'.lease
                 got == getLeaseOf(family, table', L)
             IN /\ got = GetLeaseSingle(family, {Bind(family, L)})
                /\ got.found => /\ got.lease.hostname = L.hostname
                                /\ got.lease.addr = L.addr
                                /\ got.lease.subnet_id = L.subnet_id
                                /\ got.lease.valid_lft = L.valid_lft
                                /\ got.lease.cltt = L.cltt
                                /\ got.lease.state = L.state
                                /\ got.lease.ctx = L.ctx
                /\ ContextReadable(L) => got.found
                /\ AddressesOf(table') = AddressesOf(table)
                /\ OtherRows(table', L) = OtherRows(table, L)]_vars

\* an update that changed the hostname of one of two stored leases
C10_Witness ==
    /\ last.op = "update"
    /\ last.status = "ok"
    /\ last.lease.hostname = "h2"
    /\ Cardinality(table) >= 2
    /\ getLeaseOf(family, table, last.lease).found
    /\ getLeaseOf(family, table, last.lease).lease.hostname = "h2"

(***************************************************************************)
(* SpecPage: one paged iteration over a table that does not change.  The   *)
(* caller starts at the family's zero address and passes the address of    *)
(* the last lease of a page as the next lower bound, until a page is empty.*)
(***************************************************************************)
\* the addresses a table of the iteration may hold, the zero address included;
\* the v6 texts are "::", "::1", "::2", "::10", "1::" and "a::"
PageAddrs(f) ==
    IF f = 4 THEN {V4(n) : n \in 0..MaxPageAddr}
    ELSE {V6(0, n) : n \in 0..MaxPageAddr} \cup {V6(0, 16), V6(1, 0), V6(10, 0)}

PageLease(f, a) == IF f = 4 THEN [Base4(1) EXCEPT !.addr = a] ELSE [Base6(1) EXCEPT !.addr = a]

ZeroAddress(f) == IF f = 4 THEN IPV4_ZERO_ADDRESS ELSE IPV6_ZERO_ADDRESS

InitPage ==
    /\ family \in {4, 6}
    /\ \E S \in SUBSET PageAddrs(family) : table = {Bind(family, PageLease(family, a)) : a \in S}
    /\ last = NoCall
    /\ \E size \in 1..MaxPageSize :
           page = [lower |-> ZeroAddress(family), size |-> size, seen |-> <<>>,
                   done |-> FALSE, calls |-> 0]
    /\ stats_query = NoStats
    /\ mgr = Constructed
    /\ CfgEmpty

\* one getLeases4 / getLeases6 call of the iteration
GetLeasesPage ==
    /\ ~page.done
    /\ page.calls < MaxPages
    /\ LET res == IF family = 4 THEN getLeases4(table, page.lower, page.size)
                  ELSE getLeases6(table, page.lower, page.size)
           n == Len(res.leases)
       IN page' = [page EXCEPT !.lower = IF n = 0 THEN page.lower ELSE res.leases[n].addr,
                               !.seen = page.seen \o res.leases,
                               !.done = (n = 0),
                               !.calls = page.calls + 1]
    /\ LeaseIdle
    /\ CfgIdle

NextPage == GetLeasesPage

SpecPage == InitPage /\ [][NextPage]_vars

\* numeric order of two addresses of one family
AddressLess(a, b) == a.hi < b.hi \/ (a.hi = b.hi /\ a.lo < b.lo)

StoredLeases == {FromRow(family, r).lease : r \in table}
SeenSet == {page.seen[i] : i \in 1..Len(page.seen)}
NoZeroLease == \A r \in table : r.address # AddrKey(family, ZeroAddress(family))
PagesNeeded == (Cardinality(table) + page.size - 1) \div page.size + 1

\* C4 as stated: the iteration never yields a lease twice, yields the leases in
\* ascending (numeric) address order, ends with an empty page after the pages the
\* table needs, and has then yielded every stored lease.
C4_EveryLeaseOnceAscending ==
    /\ \A i, j \in 1..Len(page.seen) : i < j => AddressLess(page.seen[i].addr, page.seen[j].addr)
    /\ page.calls <= PagesNeeded
    /\ page.calls = PagesNeeded => page.done
    /\ page.done => SeenSet = StoredLeases

\* C4 (amended): over a table that does not change and holds no lease at the
\* family's zero address, the iteration yields every stored lease exactly once, in
\* ascending order of the address column (numeric for v4, the textual order of the
\* address text for v6), and ends with an empty page after ceil(N / page_size) + 1
\* calls, for every page size >= 1.
C4_PagedIteration ==
    NoZeroLease
        => /\ \A i, j \in 1..Len(page.seen) :
                  i < j => AddressColumnLess(family, AddrKey(family, page.seen[i].addr),
                                             AddrKey(family, page.seen[j].addr))
           /\ page.calls <= PagesNeeded
           /\ page.calls = PagesNeeded => page.done
           /\ page.done => SeenSet = StoredLeases

\* a finished v6 iteration of several pages over a table without "::", in which the
\* textual order put a numerically larger address first
C4_Witness ==
    /\ family = 6
    /\ NoZeroLease
    /\ page.done
    /\ page.size = 2
    /\ page.calls >= 3
    /\ SeenSet = StoredLeases
    /\ \E i \in 1..(Len(page.seen) - 1) : AddressLess(page.seen[i + 1].addr, page.seen[i].addr)

(***************************************************************************)
(* SpecCfg: the configuration store as a state machine.  cfg_last records  *)
(* the latest call.  The entities passed in are new objects that carry no  *)
(* server tag yet.                                                         *)
(***************************************************************************)
SubnetIds == 1..MaxSubnetId
Prefixes == {"192.0.2.0/24", "10.0.0.0/8"}
Values == 1..MaxValue
Codes == 1..MaxCode
Spaces == {"dhcp4", "isc"}
Names == {"n1", "n2"}

SubnetInputs == [id : SubnetIds, prefix : Prefixes, val : Values, tags : {{}}]
OptionDefInputs == [code : Codes, space : Spaces, name : Names, tags : {{}}]
OptionInputs == [code : Codes, space : Spaces, val : Values, tags : {{}}]
GlobalInputs == [name : Names, val : Values, tags : {{}}]

CfgCall(op, sel, arg, n) == [op |-> op, sel |-> sel, arg |-> arg, n |-> n]
\* the cap on a write: the store holds at most MaxStored entities after it, all of them
\* in the collection written (the collections do not interact)
WithinBounds(others) ==
    /\ Len(subnets_') + Len(shared_networks_') + Len(option_defs_') + Len(options_')
           + Len(globals_') <= MaxStored
    /\ \A i \in 1..Len(others) : Len(others[i]) = 0

InitCfg ==
    /\ family = 4
    /\ table = {}
    /\ last = NoCall
    /\ page = NoPage
    /\ stats_query = NoStats
    /\ mgr = Constructed
    /\ shared_networks_ = <<>>
    /\ subnets_ = <<>>
    /\ option_defs_ = <<>>
    /\ options_ = <<>>
    /\ globals_ = <<>>
    /\ cfg_last = CfgCall("none", SelectorALL, NullPtr, 0)

CreateUpdateSubnet4(sel, subnet) ==
    /\ subnets_' = createUpdateSubnet4(subnets_, sel, subnet)
    /\ cfg_last' = CfgCall("createUpdateSubnet4", sel, subnet, 0)
    /\ UNCHANGED <<option_defs_, options_, globals_, page, shared_networks_>>
    /\ LeaseIdle
    /\ WithinBounds(<<option_defs_, options_, globals_>>)

DeleteSubnet4(sel, subnet_id) ==
    /\ subnets_' = deleteSubnet4(subnets_, sel, subnet_id)
    /\ cfg_last' = CfgCall("deleteSubnet4", SelectorALL, NullPtr, Len(subnets_) - Len(subnets_'))
    /\ UNCHANGED <<option_defs_, options_, globals_, page, shared_networks_>>
    /\ LeaseIdle

DeleteSubnet4Prefix(sel, subnet_prefix) ==
    /\ subnets_' = deleteSubnet4Prefix(subnets_, sel, subnet_prefix)
    /\ cfg_last' = CfgCall("deleteSubnet4Prefix", SelectorALL, NullPtr, Len(subnets_) - Len(subnets_'))
    /\ UNCHANGED <<option_defs_, options_, globals_, page, shared_networks_>>
    /\ LeaseIdle

DeleteAllSubnets4(sel) ==
    /\ subnets_' = deleteAllSubnets4(subnets_, sel)
    /\ cfg_last' = CfgCall("deleteAllSubnets4", SelectorALL, NullPtr, Len(subnets_))
    /\ UNCHANGED <<option_defs_, options_, globals_, page, shared_networks_>>
    /\ LeaseIdle

CreateUpdateOptionDef4(sel, option_def) ==
    /\ option_defs_' = createUpdateOptionDef4(option_defs_, sel, option_def)
    /\ cfg_last' = CfgCall("createUpdateOptionDef4", sel, option_def, 0)
    /\ UNCHANGED <<subnets_, options_, globals_, page, shared_networks_>>
    /\ LeaseIdle
    /\ WithinBounds(<<subnets_, options_, globals_>>)

DeleteOptionDef4(sel, code, space) ==
    /\ option_defs_' = deleteOptionDef4(option_defs_, sel, code, space)
    /\ cfg_last' = CfgCall("deleteOptionDef4", SelectorALL, NullPtr, Len(option_defs_) - Len(option_defs_'))
    /\ UNCHANGED <<subnets_, options_, globals_, page, shared_networks_>>
    /\ LeaseIdle

CreateUpdateOption4(sel, option) ==
    /\ options_' = createUpdateOption4(options_, sel, option)
    /\ cfg_last' = CfgCall("createUpdateOption4", sel, option, 0)
    /\ UNCHANGED <<subnets_, option_defs_, globals_, page, shared_networks_>>
    /\ LeaseIdle
    /\ WithinBounds(<<subnets_, option_defs_, globals_>>)

DeleteOption4(sel, code, space) ==
    /\ options_' = deleteOption4(options_, sel, code, space)
    /\ cfg_last' = CfgCall("deleteOption4", SelectorALL, NullPtr, Len(options_) - Len(options_'))
    /\ UNCHANGED <<subnets_, option_defs_, globals_, page, shared_networks_>>
    /\ LeaseIdle

CreateUpdateGlobalParameter4(sel, value) ==
    /\ globals_' = createUpdateGlobalParameter4(globals_, sel, value)
    /\ cfg_last' = CfgCall("createUpdateGlobalParameter4", sel, value, 0)
    /\ UNCHANGED <<subnets_, option_defs_, options_, page, shared_networks_>>
    /\ LeaseIdle
    /\ WithinBounds(<<subnets_, option_defs_, options_>>)

DeleteGlobalParameter4(sel, name) ==
    /\ globals_' = deleteGlobalParameter4(globals_, sel, name)
    /\ cfg_last' = CfgCall("deleteGlobalParameter4", SelectorALL, NullPtr, Len(globals_) - Len(globals_'))
    /\ UNCHANGED <<subnets_, option_defs_, options_, page, shared_networks_>>
    /\ LeaseIdle

NextCfg ==
    \/ \E sel \in Selectors, subnet \in SubnetInputs : CreateUpdateSubnet4(sel, subnet)
    \/ \E sel \in Selectors, id \in SubnetIds : DeleteSubnet4(sel, id)
    \/ \E sel \in Selectors, prefix \in Prefixes : DeleteSubnet4Prefix(sel, prefix)
    \/ \E sel \in Selectors : DeleteAllSubnets4(sel)
    \/ \E sel \in Selectors, def \in OptionDefInputs : CreateUpdateOptionDef4(sel, def)
    \/ \E sel \in Selectors, code \in Codes, space \in Spaces : DeleteOptionDef4(sel, code, space)
    \/ \E sel \in Selectors, opt \in OptionInputs : CreateUpdateOption4(sel, opt)
    \/ \E sel \in Selectors, code \in Codes, space \in Spaces : DeleteOption4(sel, code, space)
    \/ \E sel \in Selectors, value \in GlobalInputs : CreateUpdateGlobalParameter4(sel, value)
    \/ \E sel \in Selectors, name \in Names : DeleteGlobalParameter4(sel, name)

SpecCfg == InitCfg /\ [][NextCfg]_vars

(***************************************************************************)
(* Claims about the configuration store, checked under SpecCfg.            *)
(***************************************************************************)
\* r is a stored entity with the contents of the subnet s that was passed in
SameSubnet(r, s) == r # NullPtr /\ r.id = s.id /\ r.prefix = s.prefix /\ r.val = s.val

\* the visibility rule for one collection: entries of the key owned by X, and by all servers
Shadowed(c, keyed(_), get(_), X) ==
    LET own == {c[i] : i \in {j \in Indices(c) : keyed(c[j]) /\ hasServerTag(c[j], X)}}
        all == {c[i] : i \in {j \in Indices(c) : keyed(c[j]) /\ hasAllServerTag(c[j])}}
        r == get(SelectorONE(X))
    IN /\ (own = {} /\ all = {}) => r = NullPtr
       /\ (own = {} /\ all # {}) => r \in all
       /\ own # {} => (r \in own /\ r \notin all)

\* C6: with selector {X}, getOptionDef4 / getOption4 / getGlobalParameter4 returns the
\* all-servers entity of a key while no X-tagged entity of that key (and space) is
\* stored, and the X-tagged entity, never the all-servers one, once one is stored, in
\* whatever order the two were stored.
C6_ExplicitShadowsAll ==
    \A X \in ServerTags :
        /\ \A code \in Codes, space \in Spaces :
               /\ Shadowed(option_defs_, LAMBDA e : e.code = code /\ e.space = space,
                           LAMBDA sel : getOptionDef4(option_defs_, sel, code, space), X)
               /\ Shadowed(options_, LAMBDA e : e.code = code /\ e.space = space,
                           LAMBDA sel : getOption4(options_, sel, code, space), X)
        /\ \A name \in Names :
               Shadowed(globals_, LAMBDA e : e.name = name,
                        LAMBDA sel : getGlobalParameter4(globals_, sel, name), X)

\* an option definition owned by srvA stored before the all-servers definition of the
\* same code and space, and returned for selector {srvA}
C6_Witness ==
    \E i, j \in Indices(option_defs_) :
        /\ i < j
        /\ option_defs_[i].code = option_defs_[j].code
        /\ option_defs_[i].space = option_defs_[j].space
        /\ hasServerTag(option_defs_[i], "srvA")
        /\ hasAllServerTag(option_defs_[j])
        /\ getOptionDef4(option_defs_, SelectorONE("srvA"), option_defs_[i].code,
                         option_defs_[i].space) = option_defs_[i]
        /\ getOptionDef4(option_defs_, SelectorONE("srvB"), option_defs_[i].code,
                         option_defs_[i].space) = option_defs_[j]

\* the two createUpdateSubnet4 calls of C7: (all servers, S1) stored S1, and the call
\* that follows passes ({srvA}, S2) with S1's ID and other contents
C7_Scenario ==
    /\ cfg_last.op = "createUpdateSubnet4"
    /\ cfg_last.sel = SelectorALL
    /\ SameSubnet(getSubnet4(subnets_, SelectorALL, cfg_last.arg.id), cfg_last.arg)
    /\ cfg_last'.op = "createUpdateSubnet4"
    /\ cfg_last'.sel = SelectorONE("srvA")
    /\ cfg_last'.arg.id = cfg_last.arg.id
    /\ cfg_last'.arg # cfg_last.arg

\* C7 as stated: after the two calls both subnets are stored as distinct entities,
\* getSubnet4({srvA}, id) returns S2 and getSubnet4({srvB}, id) returns S1.
C7_BothScopesStored ==
    [][C7_Scenario
          => /\ \E i, j \in Indices(subnets_') :
                    /\ i # j
                    /\ SameSubnet(subnets_'[i], cfg_last.arg)
                    /\ SameSubnet(subnets_'[j], cfg_last'.arg)
             /\ SameSubnet(getSubnet4(subnets_', SelectorONE("srvA"), cfg_last.arg.id),
                           cfg_last'.arg)
             /\ SameSubnet(getSubnet4(subnets_', SelectorONE("srvB"), cfg_last.arg.id),
                           cfg_last.arg)]_vars

\* C7 (amended): after the two calls (S2's prefix not being the prefix of a stored
\* subnet with another ID) the store holds one subnet with that ID: S2, which has
\* replaced S1 and owns S1's server tags plus srvA, hence both "all" and "srvA";
\* getSubnet4 ignores its selector, so it returns S2 for {srvA} and for {srvB}.
C7_SecondReplacesFirst ==
    [][(/\ C7_Scenario
        /\ \A i \in Indices(subnets_) :
               subnets_[i].prefix = cfg_last'.arg.prefix => subnets_[i].id = cfg_last'.arg.id)
          => LET id == cfg_last.arg.id
                 old == getSubnet4(subnets_, SelectorALL, id)
                 r == getSubnet4(subnets_', SelectorONE("srvA"), id)
             IN /\ SameSubnet(r, cfg_last'.arg)
                /\ r.tags = old.tags \cup {"srvA"}
                /\ {"all", "srvA"} \subseteq r.tags
                /\ getSubnet4(subnets_', SelectorONE("srvB"), id) = r
                /\ getSubnet4Prefix(subnets_', SelectorONE("srvB"), r.prefix) = r
                /\ Cardinality({i \in Indices(subnets_') : subnets_'[i].id = id}) = 1
                /\ Len(subnets_') = Len(subnets_)
                /\ ~\E i \in Indices(subnets_') : SameSubnet(subnets_'[i], cfg_last.arg)]_vars

\* the subnet passed with selector {srvA} is stored, owned by all servers and by srvA,
\* and is what both selectors get for its ID
C7_Witness ==
    /\ cfg_last.op = "createUpdateSubnet4"
    /\ cfg_last.sel = SelectorONE("srvA")
    /\ Len(subnets_) = 1
    /\ SameSubnet(subnets_[1], cfg_last.arg)
    /\ subnets_[1].tags = {"all", "srvA"}
    /\ getSubnet4(subnets_, SelectorONE("srvB"), cfg_last.arg.id) = subnets_[1]

\* C8: the subnet found by an ID is the subnet found by its prefix and conversely,
\* and the subnet just passed to createUpdateSubnet4 is returned by getSubnet4 for its
\* ID and for its prefix.
C8_KeysAgree ==
    /\ \A id \in SubnetIds :
           LET r == getSubnet4(subnets_, SelectorALL, id)
           IN r # NullPtr => getSubnet4Prefix(subnets_, SelectorALL, r.prefix) = r
    /\ \A prefix \in Prefixes :
           LET r == getSubnet4Prefix(subnets_, SelectorALL, prefix)
           IN r # NullPtr => getSubnet4(subnets_, SelectorALL, r.id) = r
    /\ cfg_last.op = "createUpdateSubnet4"
           => /\ SameSubnet(getSubnet4(subnets_, cfg_last.sel, cfg_last.arg.id), cfg_last.arg)
              /\ SameSubnet(getSubnet4Prefix(subnets_, cfg_last.sel, cfg_last.arg.prefix),
                            cfg_last.arg)

\* no two entries of a collection have the same key and the same server scope
OnePerScope(c, sameKey(_, _)) ==
    \A i, j \in Indices(c) : (i # j /\ sameKey(c[i], c[j])) => c[i].tags \cap c[j].tags = {}

\* C9: the store holds at most one option definition per (code, space, server scope),
\* one global option per (code, space, server scope) and one global parameter per
\* (name, server scope); every entry has exactly one scope.
C9_OnePerKeyAndScope ==
    /\ OnePerScope(option_defs_, LAMBDA a, b : a.code = b.code /\ a.space = b.space)
    /\ OnePerScope(options_, LAMBDA a, b : a.code = b.code /\ a.space = b.space)
    /\ OnePerScope(globals_, LAMBDA a, b : a.name = b.name)
    /\ \A i \in Indices(option_defs_) : Cardinality(option_defs_[i].tags) = 1
    /\ \A i \in Indices(options_) : Cardinality(options_[i].tags) = 1
    /\ \A i \in Indices(globals_) : Cardinality(globals_[i].tags) = 1

\* an all-servers option definition and one owned by srvA with the same code and space
\* are stored together
C9_Witness ==
    /\ cfg_last.op = "createUpdateOptionDef4"
    /\ Len(option_defs_) = 2
    /\ \E i, j \in Indices(option_defs_) :
           /\ option_defs_[i].code = option_defs_[j].code
           /\ option_defs_[i].space = option_defs_[j].space
           /\ option_defs_[i].tags = {"all"}
           /\ option_defs_[j].tags = {"srvA"}
           /\ option_defs_[j].name # option_defs_[i].name

(***************************************************************************)
(* Expired leases: getExpiredLeases4 / getExpiredLeases6.                  *)
(***************************************************************************)
MaxCltt == 1

\* a size_t value: its upper 32 bits and its lower 32 bits
SizeT(upper, n) == [upper |-> upper, lower |-> U32(n)]
\* static_cast<uint32_t>(max_leases): the lower 32 bits
CastUint32(max_leases) == max_leases.lower
\* std::numeric_limits<uint32_t>::max()
UINT32_MAX == [hi |-> 65535, lo |-> 65535]

\* the sequences that hold every row of a set once
RowOrders(rows) ==
    {s \in [1..Cardinality(rows) -> rows] : \A i, j \in DOMAIN s : i # j => s[i] # s[j]}

\* "ORDER BY expire": rows of equal expiration come in any order
OrderByExpire(rows) ==
    {s \in RowOrders(rows) : \A i, j \in DOMAIN s : i < j => s[i].expire <= s[j].expire}

\* "LIMIT $3" with an unsigned 32-bit bound
LimitRows(s, limit) ==
    IF limit.hi > 0 \/ limit.lo >= Len(s) THEN s ELSE SubSeq(s, 1, limit.lo)

\* faulty variant: the infinite valid lifetime is not filtered out
GetLeaseExpireRows_NoInfinity(t, state, expire, limit) ==
    {LimitRows(s, limit) : s \in OrderByExpire({r \in t : r.state # state /\ r.expire < expire})}

\* GET_LEASE4_EXPIRE / GET_LEASE6_EXPIRE: "... WHERE state != $1 AND expire < $2 AND
\* valid_lifetime != 4294967295 ORDER BY expire LIMIT $3": the possible result sets
GetLeaseExpireRows(t, state, expire, limit) ==
    {LimitRows(s, limit) :
        s \in OrderByExpire({r \in t : /\ r.state # state
                                       /\ r.expire < expire
                                       /\ r.valid_lifetime # INFINITY_LFT})}

\* faulty variant: max_leases = 0 is cast like any other value
ExpiredLimit_ZeroCast(max_leases) == CastUint32(max_leases)

\* getExpiredLeasesCommon: the limit bound for max_leases
ExpiredLimit(max_leases) ==
    IF max_leases.upper > 0 \/ U32Val(max_leases.lower) > 0
    THEN CastUint32(max_leases) ELSE UINT32_MAX

\* getExpiredLeasesCommon(expired_leases, max_leases, statement_index) at time(NULL) = now
getExpiredLeasesCommon(f, t, max_leases, now) ==
    {GetLeaseCollection(f, rows) :
        rows \in GetLeaseExpireRows(t, STATE_EXPIRED_RECLAIMED, now, ExpiredLimit(max_leases))}

\* the leases stored for the expiration queries
ExpireLeases(f) ==
    LET base(a) == IF f = 4 THEN Base4(a) ELSE Base6(a)
    IN {[base(a) EXCEPT !.cltt = c, !.valid_lft = v, !.state = st] :
            a \in Addrs, c \in 0..MaxCltt, v \in {U32(1), INFINITY_LFT},
            st \in {STATE_DEFAULT, STATE_EXPIRED_RECLAIMED}}
       \cup {[base(a) EXCEPT !.ctx = Ctx(StringElement("x"))] : a \in Addrs}

\* the requested maxima: 0, 1, 2, 2^32 and 2^32 + 1
MaxLeasesInputs == {SizeT(0, 0), SizeT(0, 1), SizeT(0, 2), SizeT(1, 0), SizeT(1, 1)}
\* the times of the calls: small ones and one past five hundred days
ExpireNows == (0..MaxNow) \cup {FIVEHUNDREDDAYS + MaxNow}

\* getExpiredLeases4(expired_leases, max_leases) / getExpiredLeases6(...)
GetExpiredLeases(max_leases, now) ==
    /\ \E res \in getExpiredLeasesCommon(family, table, max_leases, now) :
            last' = [op |-> "expired", max_leases |-> max_leases, now |-> now,
                     status |-> res.status, leases |-> res.leases]
    /\ UNCHANGED <<family, table, page, stats_query, mgr>>
    /\ CfgIdle

NextExpire ==
    \/ \E lease \in ExpireLeases(family) : AddLease(lease)
    \/ \E max_leases \in MaxLeasesInputs, now \in ExpireNows : GetExpiredLeases(max_leases, now)

SpecExpire == Init /\ [][NextExpire]_vars

\* the expiration time of a lease, as the store computes it
ExpirationOf(lease) == convertToDatabaseTime(lease.cltt, ExpireLifetime(lease.valid_lft))
\* the stored leases a call at time now may return
Eligible(now) ==
    {r \in table : /\ r.state # STATE_EXPIRED_RECLAIMED
                   /\ r.expire < now
                   /\ r.valid_lifetime # INFINITY_LFT}
\* the rows of the returned leases
ReturnedRows == {r \in table : \E i \in DOMAIN last.leases :
                                  AddrKey(family, last.leases[i].addr) = r.address}
\* what every successful call returns: eligible leases only, soonest first, and
\* no eligible lease left out expires before a returned one
ExpiredShape ==
    /\ \A i \in DOMAIN last.leases :
          /\ last.leases[i].state # STATE_EXPIRED_RECLAIMED
          /\ last.leases[i].valid_lft # INFINITY_LFT
          /\ ExpirationOf(last.leases[i]) < last.now
    /\ \A i, j \in DOMAIN last.leases :
          i < j => /\ ExpirationOf(last.leases[i]) <= ExpirationOf(last.leases[j])
                   /\ last.leases[i].addr # last.leases[j].addr
    /\ ReturnedRows \subseteq Eligible(last.now)
    /\ Cardinality(ReturnedRows) = Len(last.leases)
    /\ \A r \in Eligible(last.now) \ ReturnedRows, q \in ReturnedRows : q.expire <= r.expire
\* the smaller of a requested maximum and a small count
MinWithSizeT(max_leases, n) ==
    IF max_leases.upper > 0 \/ U32Val(max_leases.lower) >= n THEN n ELSE U32Val(max_leases.lower)
ExpiredCall == last.op = "expired" /\ last.status = "ok"

\* C11 as stated: a call returns only eligible leases, soonest first; with
\* max_leases > 0 the max_leases soonest-expiring ones (all if fewer), with
\* max_leases = 0 all of them.  Fails for max_leases = 2^32: nothing is returned.
C11_MaxLeasesSoonest ==
    ExpiredCall =>
        /\ ExpiredShape
        /\ Len(last.leases) =
              IF last.max_leases = SizeT(0, 0) THEN Cardinality(Eligible(last.now))
              ELSE MinWithSizeT(last.max_leases, Cardinality(Eligible(last.now)))

\* C11, what the code does: the result has the shape stated, and its length is the
\* smaller of the number of eligible leases and the lower 32 bits of max_leases
\* (all eligible leases for max_leases = 0)
C11_LimitLower32 ==
    ExpiredCall =>
        /\ ExpiredShape
        /\ Len(last.leases) =
              IF last.max_leases = SizeT(0, 0) THEN Cardinality(Eligible(last.now))
              ELSE MinWithSizeT(SizeT(0, U32Val(last.max_leases.lower)),
                                Cardinality(Eligible(last.now)))

\* a call limited to one lease returned the sooner of two eligible leases that
\* expire at different times
C11_Witness ==
    /\ ExpiredCall
    /\ last.max_leases = SizeT(0, 1)
    /\ Len(last.leases) = 1
    /\ Cardinality(Eligible(last.now)) = 2
    /\ \E r \in Eligible(last.now) : r.expire > ExpirationOf(last.leases[1])

\* a call with a requested maximum above zero was answered
BoundedExpiredCall == ExpiredCall /\ last.max_leases # SizeT(0, 0)
\* the limit bound for the call is at least the requested maximum
LimitCoversRequest ==
    /\ last.max_leases.upper = 0
    /\ U32Val(ExpiredLimit(last.max_leases)) >= U32Val(last.max_leases.lower)

\* C39 as stated: for every max_leases > 0, those of 2^32 and above included, the call
\* returns min(max_leases, number of eligible leases) leases and the limit bound to the
\* query is not smaller than max_leases.  Fails for 2^32 + 1: the limit bound is 1.
C39_LimitCoversMaxLeases ==
    BoundedExpiredCall =>
        /\ LimitCoversRequest
        /\ Len(last.leases) = MinWithSizeT(last.max_leases, Cardinality(Eligible(last.now)))

\* C39, what the code does: max_leases = 0 alone returns every eligible lease; a
\* max_leases below 2^32 returns min(max_leases, eligible) leases under a limit equal
\* to it; a max_leases of 2^32 and above returns min(max_leases mod 2^32, eligible)
\* leases, none at all for 2^32, under a limit smaller than the requested maximum
C39_LimitIsLower32Bits ==
    ExpiredCall =>
        LET eligible == Cardinality(Eligible(last.now))
            lower == U32Val(last.max_leases.lower)
        IN /\ last.max_leases = SizeT(0, 0) => Len(last.leases) = eligible
           /\ BoundedExpiredCall =>
                 /\ Len(last.leases) = IF lower >= eligible THEN eligible ELSE lower
                 /\ last.max_leases.upper = 0 => LimitCoversRequest
                 /\ last.max_leases.upper > 0 => Len(last.leases) <= lower

\* a call asking for at most 2^32 + 1 leases returned one of two eligible leases
C39_Witness ==
    /\ ExpiredCall
    /\ last.max_leases = SizeT(1, 1)
    /\ Cardinality(Eligible(last.now)) = 2
    /\ Len(last.leases) = 1

(***************************************************************************)
(* The configuration store: shared networks, the accessors that return     *)
(* collections, and the deletes of subnets and shared networks.  A subnet  *)
(* is associated with a shared network by name (shared_network_name) or    *)
(* by a pointer to a network object (network holds that object's name, ""  *)
(* for no object); a subnet attached to a network object is taken to be a  *)
(* member of the stored network of that name when one is stored.           *)
(***************************************************************************)
MaxTime == 2

\* db::ServerSelector::ANY(): no tag
SelectorANY == [type |-> "ANY", tags |-> {}]

\* the loop of the collection accessors: the entity owns a tag of the selector, or
\* else it is owned by all servers
SelectedBy(e, server_selector) ==
    \/ \E tag \in getTags(server_selector) : hasServerTag(e, tag)
    \/ hasAllServerTag(e)

\* the modification time index: the entities ordered by modification time
RECURSIVE ModificationTimeIndex(_)
ModificationTimeIndex(c) ==
    IF Len(c) = 0 THEN <<>>
    ELSE LET first == MinOf({i \in Indices(c) : \A j \in Indices(c) : c[i].mtime <= c[j].mtime})
         IN <<c[first]>> \o ModificationTimeIndex(SubSeq(c, 1, first - 1)
                                                  \o SubSeq(c, first + 1, Len(c)))

\* faulty variant: the entities modified at the cutoff itself are left out
LowerBound_After(c, modification_time) ==
    SelectSeq(ModificationTimeIndex(c), LAMBDA e : e.mtime > modification_time)

\* index.lower_bound(modification_time) up to index.end()
LowerBound(c, modification_time) ==
    SelectSeq(ModificationTimeIndex(c), LAMBDA e : e.mtime >= modification_time)

\* faulty variant: a selector without tags selects every subnet
getAllSubnets4_NoTagsAll(c, server_selector) ==
    IF getTags(server_selector) = {} THEN c
    ELSE SelectSeq(c, LAMBDA e : SelectedBy(e, server_selector))

\* getAllSubnets4(server_selector)
getAllSubnets4(c, server_selector) == SelectSeq(c, LAMBDA e : SelectedBy(e, server_selector))

\* getModifiedSubnets4(server_selector, modification_time): the selector is not used
getModifiedSubnets4(c, server_selector, modification_time) == LowerBound(c, modification_time)

\* getSharedNetworkSubnets4(server_selector, shared_network_name): the selector is not used
getSharedNetworkSubnets4(c, server_selector, shared_network_name) ==
    SelectSeq(c, LAMBDA e : \/ (e.network # "" /\ e.network = shared_network_name)
                            \/ e.shared_network_name = shared_network_name)

\* getSharedNetwork4(server_selector, name): the selector is not used
getSharedNetwork4(c, server_selector, name) ==
    IF \E i \in Indices(c) : c[i].name = name
    THEN c[CHOOSE i \in Indices(c) : c[i].name = name]
    ELSE NullPtr

\* getAllSharedNetworks4(server_selector)
getAllSharedNetworks4(c, server_selector) ==
    SelectSeq(c, LAMBDA e : SelectedBy(e, server_selector))

\* getModifiedSharedNetworks4(server_selector, modification_time): the selector is not used
getModifiedSharedNetworks4(c, server_selector, modification_time) ==
    LowerBound(c, modification_time)

\* faulty variant: an all-servers definition is left out when the selector's tag owns
\* a definition of the same code and space
getAllOptionDefs4_Shadowing(c, server_selector) ==
    SelectSeq(c, LAMBDA e :
        \/ \E tag \in getTags(server_selector) : hasServerTag(e, tag)
        \/ /\ hasAllServerTag(e)
           /\ ~\E i \in Indices(c) : /\ c[i].code = e.code
                                     /\ c[i].space = e.space
                                     /\ \E tag \in getTags(server_selector) :
                                            hasServerTag(c[i], tag))

\* getAllOptionDefs4(server_selector)
getAllOptionDefs4(c, server_selector) == SelectSeq(c, LAMBDA e : SelectedBy(e, server_selector))

\* getModifiedOptionDefs4(server_selector, modification_time)
getModifiedOptionDefs4(c, server_selector, modification_time) ==
    SelectSeq(LowerBound(c, modification_time), LAMBDA e : SelectedBy(e, server_selector))

\* getAllOptions4(server_selector)
getAllOptions4(c, server_selector) == SelectSeq(c, LAMBDA e : SelectedBy(e, server_selector))

\* getModifiedOptions4(server_selector, modification_time)
getModifiedOptions4(c, server_selector, modification_time) ==
    SelectSeq(LowerBound(c, modification_time), LAMBDA e : SelectedBy(e, server_selector))

\* getAllGlobalParameters4(server_selector)
getAllGlobalParameters4(c, server_selector) ==
    SelectSeq(c, LAMBDA e : SelectedBy(e, server_selector))

\* getModifiedGlobalParameters4(server_selector, modification_time)
getModifiedGlobalParameters4(c, server_selector, modification_time) ==
    SelectSeq(LowerBound(c, modification_time), LAMBDA e : SelectedBy(e, server_selector))

\* faulty variant: the tags of the replaced shared network are not copied
createUpdateSharedNetwork4_NoCopy(c, server_selector, shared_network) ==
    IF \E i \in Indices(c) : c[i].name = shared_network.name
    THEN [c EXCEPT ![CHOOSE i \in Indices(c) : c[i].name = shared_network.name] =
                       mergeServerTags(shared_network, server_selector)]
    ELSE Append(c, mergeServerTags(shared_network, server_selector))

\* createUpdateSharedNetwork4(server_selector, shared_network): the collection afterwards;
\* the name index is unique, so a network is replaced by name or else inserted
createUpdateSharedNetwork4(c, server_selector, shared_network) ==
    IF \E i \in Indices(c) : c[i].name = shared_network.name
    THEN LET pos == CHOOSE i \in Indices(c) : c[i].name = shared_network.name
         IN [c EXCEPT ![pos] = mergeServerTags(copyServerTags(c[pos], shared_network),
                                               server_selector)]
    ELSE Append(c, mergeServerTags(shared_network, server_selector))

\* faulty variant: only the subnets visible to the selector are deleted
deleteSharedNetworkSubnets4_Scoped(c, server_selector, shared_network_name) ==
    SelectSeq(c, LAMBDA e : ~(/\ SelectedBy(e, server_selector)
                              /\ \/ (e.network # "" /\ e.network = shared_network_name)
                                 \/ e.shared_network_name = shared_network_name))

\* deleteSharedNetworkSubnets4(server_selector, shared_network_name): the subnets left
deleteSharedNetworkSubnets4(c, server_selector, shared_network_name) ==
    SelectSeq(c, LAMBDA e : ~(\/ (e.network # "" /\ e.network = shared_network_name)
                              \/ e.shared_network_name = shared_network_name))

\* SharedNetwork4::delAll() on the stored network: its member subnets lose their pointer
delAll(subs, name) ==
    [i \in Indices(subs) |->
        IF subs[i].network = name THEN [subs[i] EXCEPT !.network = ""] ELSE subs[i]]

\* faulty variant: the subnets of the network are deleted with it
deleteSharedNetwork4_Cascade(subs, nets, server_selector, name) ==
    [subnets |-> SelectSeq(subs, LAMBDA e : e.shared_network_name # name /\ e.network # name),
     shared_networks |-> SelectSeq(nets, LAMBDA e : e.name # name),
     n |-> Len(nets) - Len(SelectSeq(nets, LAMBDA e : e.name # name))]

\* deleteSharedNetwork4(server_selector, name): the subnets and the shared networks
\* afterwards, and the value returned
deleteSharedNetwork4(subs, nets, server_selector, name) ==
    LET renamed == [i \in Indices(subs) |->
                       IF subs[i].shared_network_name = name
                       THEN [subs[i] EXCEPT !.shared_network_name = ""] ELSE subs[i]]
        found == \E i \in Indices(nets) : nets[i].name = name
    IN [subnets |-> IF found THEN delAll(renamed, name) ELSE renamed,
        shared_networks |-> SelectSeq(nets, LAMBDA e : e.name # name),
        n |-> Len(nets) - Len(SelectSeq(nets, LAMBDA e : e.name # name))]

\* deleteAllSharedNetworks4(server_selector): the selector is not used
deleteAllSharedNetworks4(c, server_selector) == <<>>

(***************************************************************************)
(* SpecNet: the configuration store with shared networks and modification  *)
(* times.  The entities passed in carry the modification time their        *)
(* caller gave them.                                                       *)
(***************************************************************************)
Times == 1..MaxTime
Associations == {[shared_network_name |-> "", network |-> ""],
                 [shared_network_name |-> "n1", network |-> ""],
                 [shared_network_name |-> "", network |-> "n1"]}
\* every subnet ID has a prefix of its own here
PrefixOf(id) == IF id = 1 THEN "192.0.2.0/24" ELSE IF id = 2 THEN "10.0.0.0/8" ELSE "other"
NetSubnetInputs ==
    {[id |-> id, prefix |-> PrefixOf(id), mtime |-> t, tags |-> {},
      shared_network_name |-> a.shared_network_name, network |-> a.network] :
        id \in SubnetIds, t \in Times, a \in Associations}
SharedNetworkInputs == [name : Names, mtime : Times, tags : {{}}]
TimedOptionDefInputs == [code : Codes, space : {"dhcp4"}, name : {"n1"}, mtime : Times, tags : {{}}]
TimedOptionInputs == [code : Codes, space : {"dhcp4"}, mtime : Times, tags : {{}}]
TimedGlobalInputs == [name : Names, mtime : Times, tags : {{}}]

CreateUpdateSharedNetwork4(sel, shared_network) ==
    /\ shared_networks_' = createUpdateSharedNetwork4(shared_networks_, sel, shared_network)
    /\ cfg_last' = CfgCall("createUpdateSharedNetwork4", sel, shared_network, 0)
    /\ UNCHANGED <<subnets_, option_defs_, options_, globals_, page>>
    /\ LeaseIdle
    /\ WithinBounds(<<option_defs_, options_, globals_>>)

DeleteSharedNetworkSubnets4(sel, shared_network_name) ==
    /\ subnets_' = deleteSharedNetworkSubnets4(subnets_, sel, shared_network_name)
    /\ cfg_last' = CfgCall("deleteSharedNetworkSubnets4", sel,
                           [name |-> shared_network_name,
                            gone |-> {subnets_[i] : i \in Indices(subnets_)}
                                         \ {subnets_'[i] : i \in Indices(subnets_')}],
                           Len(subnets_) - Len(subnets_'))
    /\ UNCHANGED <<shared_networks_, option_defs_, options_, globals_, page>>
    /\ LeaseIdle

DeleteSharedNetwork4(sel, name) ==
    LET res == deleteSharedNetwork4(subnets_, shared_networks_, sel, name)
    IN /\ subnets_' = res.subnets
       /\ shared_networks_' = res.shared_networks
       /\ cfg_last' = CfgCall("deleteSharedNetwork4", sel,
                              [name |-> name,
                               detached |-> Cardinality({i \in Indices(subnets_) :
                                                            res.subnets[i] # subnets_[i]})],
                              res.n)
       /\ UNCHANGED <<option_defs_, options_, globals_, page>>
       /\ LeaseIdle

DeleteAllSharedNetworks4(sel) ==
    /\ shared_networks_' = deleteAllSharedNetworks4(shared_networks_, sel)
    /\ cfg_last' = CfgCall("deleteAllSharedNetworks4", sel, NullPtr, Len(shared_networks_))
    /\ UNCHANGED <<subnets_, option_defs_, options_, globals_, page>>
    /\ LeaseIdle

\* the selectors of the writes; the reads and the deletes take every selector
WriteSelectors == {SelectorALL, SelectorONE("srvA")}

NextNet ==
    \/ \E sel \in WriteSelectors, subnet \in NetSubnetInputs : CreateUpdateSubnet4(sel, subnet)
    \/ \E sel \in WriteSelectors, net \in SharedNetworkInputs :
           CreateUpdateSharedNetwork4(sel, net)
    \/ \E sel \in Selectors, id \in SubnetIds : DeleteSubnet4(sel, id)
    \/ \E sel \in Selectors, prefix \in Prefixes : DeleteSubnet4Prefix(sel, prefix)
    \/ \E sel \in Selectors : DeleteAllSubnets4(sel)
    \/ \E sel \in Selectors, name \in Names : DeleteSharedNetworkSubnets4(sel, name)
    \/ \E sel \in Selectors, name \in Names : DeleteSharedNetwork4(sel, name)
    \/ \E sel \in Selectors : DeleteAllSharedNetworks4(sel)
    \/ \E sel \in WriteSelectors, def \in TimedOptionDefInputs : CreateUpdateOptionDef4(sel, def)
    \/ \E sel \in WriteSelectors, opt \in TimedOptionInputs : CreateUpdateOption4(sel, opt)
    \/ \E sel \in WriteSelectors, value \in TimedGlobalInputs : CreateUpdateGlobalParameter4(sel, value)

SpecNet == InitCfg /\ [][NextNet]_vars

(***************************************************************************)
(* Claims about the configuration store, checked under SpecNet.            *)
(***************************************************************************)
\* the selectors a read is made with
ReadSelectors == Selectors \cup {SelectorANY}
\* the elements of a sequence
Range(c) == {c[i] : i \in Indices(c)}
\* the entity is owned by a tag of the selector or by all servers
Owns(e, sel) == hasAllServerTag(e) \/ \E tag \in getTags(sel) : hasServerTag(e, tag)
\* what the accessors of C12 return for a selector
C12_Returned(sel) ==
    UNION {{getSubnet4(subnets_, sel, id) : id \in SubnetIds},
           {getSubnet4Prefix(subnets_, sel, prefix) : prefix \in Prefixes},
           {getSharedNetwork4(shared_networks_, sel, name) : name \in Names},
           UNION {Range(getModifiedSubnets4(subnets_, sel, t)) : t \in 0..(MaxTime + 1)},
           UNION {Range(getModifiedSharedNetworks4(shared_networks_, sel, t)) :
                      t \in 0..(MaxTime + 1)},
           UNION {Range(getSharedNetworkSubnets4(subnets_, sel, name)) : name \in Names}}
       \ {NullPtr}

\* C12 as stated: getSubnet4 (by ID and by prefix), getSharedNetwork4,
\* getModifiedSubnets4, getModifiedSharedNetworks4 and getSharedNetworkSubnets4 return
\* an entity only if it owns a tag of the selector or the all-servers tag
C12_OnlyOwnedReturned ==
    \A sel \in Selectors : \A e \in C12_Returned(sel) : Owns(e, sel)

\* C12, what the code does: these accessors do not use the selector; each returns the
\* stored entities of the key, cutoff or network name whatever tags they own, and
\* only getAllSubnets4 and getAllSharedNetworks4 return exactly the owned entities
C12_SelectorNotUsed ==
    \A sel \in Selectors :
        /\ \A id \in SubnetIds :
              getSubnet4(subnets_, sel, id) =
                  IF \E e \in Range(subnets_) : e.id = id
                  THEN CHOOSE e \in Range(subnets_) : e.id = id ELSE NullPtr
        /\ \A prefix \in Prefixes :
              getSubnet4Prefix(subnets_, sel, prefix) =
                  IF \E e \in Range(subnets_) : e.prefix = prefix
                  THEN CHOOSE e \in Range(subnets_) : e.prefix = prefix ELSE NullPtr
        /\ \A name \in Names :
              /\ getSharedNetwork4(shared_networks_, sel, name) =
                     IF \E e \in Range(shared_networks_) : e.name = name
                     THEN CHOOSE e \in Range(shared_networks_) : e.name = name ELSE NullPtr
              /\ Range(getSharedNetworkSubnets4(subnets_, sel, name)) =
                     {e \in Range(subnets_) : e.shared_network_name = name \/ e.network = name}
        /\ \A t \in 0..(MaxTime + 1) :
              /\ Range(getModifiedSubnets4(subnets_, sel, t)) =
                     {e \in Range(subnets_) : e.mtime >= t}
              /\ Range(getModifiedSharedNetworks4(shared_networks_, sel, t)) =
                     {e \in Range(shared_networks_) : e.mtime >= t}
        /\ Range(getAllSubnets4(subnets_, sel)) = {e \in Range(subnets_) : Owns(e, sel)}
        /\ Range(getAllSharedNetworks4(shared_networks_, sel)) =
               {e \in Range(shared_networks_) : Owns(e, sel)}

\* a subnet owned by srvA only is stored; getSubnet4 returns it to the selector
\* {srvB}, and getAllSubnets4 does not
C12_Witness ==
    \E e \in Range(subnets_) :
        /\ e.tags = {"srvA"}
        /\ cfg_last.op = "createUpdateSubnet4"
        /\ getSubnet4(subnets_, SelectorONE("srvB"), e.id) = e
        /\ e \notin Range(getAllSubnets4(subnets_, SelectorONE("srvB")))

\* the entities of a collection that C13 expects for the selector {X}: those owned by
\* X, and those owned by all servers whose key no X-owned entity has
ShadowedView(c, sameKey(_, _), X) ==
    {e \in Range(c) :
        \/ hasServerTag(e, X)
        \/ /\ hasAllServerTag(e)
           /\ ~\E o \in Range(c) : sameKey(o, e) /\ hasServerTag(o, X)}
\* the entities owned by X or by all servers
OwnedView(c, X) == {e \in Range(c) : hasServerTag(e, X) \/ hasAllServerTag(e)}
SameCodeSpace(a, b) == a.code = b.code /\ a.space = b.space
SameName(a, b) == a.name = b.name
Cutoffs == 0..(MaxTime + 1)

\* C13 as stated: for the selector {X}, getAllOptionDefs4, getAllOptions4,
\* getAllGlobalParameters4 and their getModified counterparts hold an entity iff it
\* owns X, or owns the all-servers tag while no X-owned entity of the same key (and
\* space) is stored; no result holds both
C13_AllShadowedByExplicit ==
    \A X \in ServerTags :
        /\ Range(getAllOptionDefs4(option_defs_, SelectorONE(X))) =
               ShadowedView(option_defs_, SameCodeSpace, X)
        /\ Range(getAllOptions4(options_, SelectorONE(X))) =
               ShadowedView(options_, SameCodeSpace, X)
        /\ Range(getAllGlobalParameters4(globals_, SelectorONE(X))) =
               ShadowedView(globals_, SameName, X)
        /\ \A t \in Cutoffs :
              /\ Range(getModifiedOptionDefs4(option_defs_, SelectorONE(X), t)) =
                     {e \in ShadowedView(option_defs_, SameCodeSpace, X) : e.mtime >= t}
              /\ Range(getModifiedOptions4(options_, SelectorONE(X), t)) =
                     {e \in ShadowedView(options_, SameCodeSpace, X) : e.mtime >= t}
              /\ Range(getModifiedGlobalParameters4(globals_, SelectorONE(X), t)) =
                     {e \in ShadowedView(globals_, SameName, X) : e.mtime >= t}

\* C13, what the code does: for the selector {X} these accessors hold an entity iff it
\* owns X or the all-servers tag (and, for getModified, is not older than the cutoff);
\* an all-servers entity is not left out when an X-owned entity has its key
C13_OwnedOrAllServers ==
    \A X \in ServerTags :
        /\ Range(getAllOptionDefs4(option_defs_, SelectorONE(X))) = OwnedView(option_defs_, X)
        /\ Range(getAllOptions4(options_, SelectorONE(X))) = OwnedView(options_, X)
        /\ Range(getAllGlobalParameters4(globals_, SelectorONE(X))) = OwnedView(globals_, X)
        /\ \A t \in Cutoffs :
              /\ Range(getModifiedOptionDefs4(option_defs_, SelectorONE(X), t)) =
                     {e \in OwnedView(option_defs_, X) : e.mtime >= t}
              /\ Range(getModifiedOptions4(options_, SelectorONE(X), t)) =
                     {e \in OwnedView(options_, X) : e.mtime >= t}
              /\ Range(getModifiedGlobalParameters4(globals_, SelectorONE(X), t)) =
                     {e \in OwnedView(globals_, X) : e.mtime >= t}

\* an all-servers definition and a srvA definition of one code and space are stored,
\* and getAllOptionDefs4 for {srvA} holds both
C13_Witness ==
    \E a, b \in Range(getAllOptionDefs4(option_defs_, SelectorONE("srvA"))) :
        /\ SameCodeSpace(a, b)
        /\ a.tags = {"all"}
        /\ b.tags = {"srvA"}

\* the selectors that ask for no explicit server: no tag at all (ANY), and ALL
Unrestricted == {SelectorANY, SelectorALL}

\* C14 as stated: with the unrestricted selector (read as the selector of no tags or
\* as ALL) getAllSubnets4, getAllSharedNetworks4, getAllOptionDefs4, getAllOptions4 and
\* getAllGlobalParameters4 return every stored entity, those owned by an explicit tag
\* only included
C14_UnrestrictedReturnsAll ==
    \E sel \in Unrestricted :
        /\ Range(getAllSubnets4(subnets_, sel)) = Range(subnets_)
        /\ Range(getAllSharedNetworks4(shared_networks_, sel)) = Range(shared_networks_)
        /\ Range(getAllOptionDefs4(option_defs_, sel)) = Range(option_defs_)
        /\ Range(getAllOptions4(options_, sel)) = Range(options_)
        /\ Range(getAllGlobalParameters4(globals_, sel)) = Range(globals_)

\* C14, what the code does: with a selector of no tags, and with the selector ALL,
\* each getAll accessor returns exactly the stored entities that own the all-servers
\* tag, in the order of the collection
C14_UnrestrictedReturnsAllServers ==
    \A sel \in Unrestricted :
        /\ getAllSubnets4(subnets_, sel) = SelectSeq(subnets_, hasAllServerTag)
        /\ getAllSharedNetworks4(shared_networks_, sel) =
               SelectSeq(shared_networks_, hasAllServerTag)
        /\ getAllOptionDefs4(option_defs_, sel) = SelectSeq(option_defs_, hasAllServerTag)
        /\ getAllOptions4(options_, sel) = SelectSeq(options_, hasAllServerTag)
        /\ getAllGlobalParameters4(globals_, sel) = SelectSeq(globals_, hasAllServerTag)

\* a subnet owned by all servers and a subnet owned by srvA only are stored, and
\* getAllSubnets4 with the selector of no tags returns the first one alone
C14_Witness ==
    /\ cfg_last.op = "createUpdateSubnet4"
    /\ Len(subnets_) = 2
    /\ \E e \in Range(subnets_) : e.tags = {"srvA"}
    /\ Len(getAllSubnets4(subnets_, SelectorANY)) = 1

\* the call just made was createUpdateSubnet4 for a stored ID, and the replacement was
\* accepted by the prefix index
ReplacedSubnet ==
    /\ cfg_last'.op = "createUpdateSubnet4"
    /\ \E old \in Range(subnets_) : old.id = cfg_last'.arg.id
    /\ ~\E o \in Range(subnets_) : o.id # cfg_last'.arg.id /\ o.prefix = cfg_last'.arg.prefix
\* the call just made was createUpdateSharedNetwork4 for a stored name
ReplacedSharedNetwork ==
    /\ cfg_last'.op = "createUpdateSharedNetwork4"
    /\ \E old \in Range(shared_networks_) : old.name = cfg_last'.arg.name

\* C15: when createUpdateSubnet4 or createUpdateSharedNetwork4 replaces a stored
\* entity, the entity stored afterwards carries the new contents and owns every tag
\* the replaced entity owned plus the tags of the selector, and it is the only stored
\* entity of that key
C15_ReplaceKeepsTags ==
    [][/\ ReplacedSubnet =>
            LET old == CHOOSE e \in Range(subnets_) : e.id = cfg_last'.arg.id
                now == {i \in Indices(subnets_') : subnets_'[i].id = cfg_last'.arg.id}
            IN /\ Cardinality(now) = 1
               /\ \A i \in now :
                     /\ subnets_'[i].tags = old.tags \cup getTags(cfg_last'.sel)
                     /\ subnets_'[i] = [cfg_last'.arg EXCEPT !.tags = subnets_'[i].tags]
               /\ Len(subnets_') = Len(subnets_)
       /\ ReplacedSharedNetwork =>
            LET old == CHOOSE e \in Range(shared_networks_) : e.name = cfg_last'.arg.name
                now == {i \in Indices(shared_networks_') :
                            shared_networks_'[i].name = cfg_last'.arg.name}
            IN /\ Cardinality(now) = 1
               /\ \A i \in now :
                     /\ shared_networks_'[i].tags = old.tags \cup getTags(cfg_last'.sel)
                     /\ shared_networks_'[i] =
                            [cfg_last'.arg EXCEPT !.tags = shared_networks_'[i].tags]
               /\ Len(shared_networks_') = Len(shared_networks_)]_vars

\* a shared network written for all servers was replaced by a write for {srvA}: the
\* stored network has the new modification time and owns both tags
C15_Witness ==
    /\ cfg_last.op = "createUpdateSharedNetwork4"
    /\ cfg_last.sel = SelectorONE("srvA")
    /\ \E e \in Range(shared_networks_) :
          /\ e.name = cfg_last.arg.name
          /\ e.mtime = cfg_last.arg.mtime
          /\ e.tags = {"all", "srvA"}

\* the outcome of a delete: the subnets and shared networks left and the count returned
Outcome(subs, nets, n) == [subnets |-> subs, shared_networks |-> nets, n |-> n]
\* the outcome of the call just made
OutcomeNow == Outcome(subnets_', shared_networks_', cfg_last'.n)

\* C16: deleteSubnet4 (by ID and by prefix), deleteAllSubnets4, deleteSharedNetwork4,
\* deleteAllSharedNetworks4 and deleteSharedNetworkSubnets4 do not depend on the
\* selector: the call just made has the count and the resulting store that the same
\* call has with every other selector
C16_DeletesIgnoreSelector ==
    [][/\ cfg_last'.op = "deleteSubnet4" =>
            \E id \in SubnetIds : \A sel \in Selectors :
                OutcomeNow = Outcome(deleteSubnet4(subnets_, sel, id), shared_networks_,
                                     Len(subnets_) - Len(deleteSubnet4(subnets_, sel, id)))
       /\ cfg_last'.op = "deleteSubnet4Prefix" =>
            \E prefix \in Prefixes : \A sel \in Selectors :
                OutcomeNow = Outcome(deleteSubnet4Prefix(subnets_, sel, prefix), shared_networks_,
                                     Len(subnets_) - Len(deleteSubnet4Prefix(subnets_, sel, prefix)))
       /\ cfg_last'.op = "deleteAllSubnets4" =>
            \A sel \in Selectors :
                OutcomeNow = Outcome(deleteAllSubnets4(subnets_, sel), shared_networks_,
                                     Len(subnets_))
       /\ cfg_last'.op = "deleteSharedNetworkSubnets4" =>
            \A sel \in Selectors :
                LET left == deleteSharedNetworkSubnets4(subnets_, sel, cfg_last'.arg.name)
                IN OutcomeNow = Outcome(left, shared_networks_, Len(subnets_) - Len(left))
       /\ cfg_last'.op = "deleteSharedNetwork4" =>
            \A sel \in Selectors :
                OutcomeNow = deleteSharedNetwork4(subnets_, shared_networks_, sel,
                                                  cfg_last'.arg.name)
       /\ cfg_last'.op = "deleteAllSharedNetworks4" =>
            \A sel \in Selectors :
                OutcomeNow = Outcome(subnets_, deleteAllSharedNetworks4(shared_networks_, sel),
                                     Len(shared_networks_))]_vars

\* deleteSharedNetworkSubnets4 called with the selector {srvB} deleted a subnet that
\* is owned by srvA only
C16_Witness ==
    /\ cfg_last.op = "deleteSharedNetworkSubnets4"
    /\ cfg_last.sel = SelectorONE("srvB")
    /\ cfg_last.n = 1
    /\ \E e \in cfg_last.arg.gone : e.tags = {"srvA"}

\* the call just made was deleteSharedNetwork4(name)
DeletedNetworkName == cfg_last'.arg.name
\* the IDs and prefixes of the stored subnets, in the order of the collection
Keys(c) == [i \in Indices(c) |-> <<c[i].id, c[i].prefix>>]

\* C17 as stated: deleteSharedNetwork4(name) deletes no subnet and keeps every ID and
\* prefix; afterwards no stored subnet has the shared-network name, the network's
\* subnet list getSharedNetworkSubnets4(name) is empty, getSharedNetwork4(name)
\* returns nothing, and the call returned 1 if the network was stored, else 0
C17_NetworkDetached ==
    [][cfg_last'.op = "deleteSharedNetwork4" =>
          /\ Keys(subnets_') = Keys(subnets_)
          /\ \A e \in Range(subnets_') : e.shared_network_name # DeletedNetworkName
          /\ getSharedNetworkSubnets4(subnets_', cfg_last'.sel, DeletedNetworkName) = <<>>
          /\ getSharedNetwork4(shared_networks_', cfg_last'.sel, DeletedNetworkName) = NullPtr
          /\ cfg_last'.n = IF \E e \in Range(shared_networks_) : e.name = DeletedNetworkName
                           THEN 1 ELSE 0]_vars

\* C17, what the code does: as stated, except that getSharedNetworkSubnets4(name) is
\* empty afterwards only if the network was stored; when it was not, the subnets
\* attached to a network object of that name keep their pointer and are still returned
C17_DetachedWhenStored ==
    [][cfg_last'.op = "deleteSharedNetwork4" =>
          LET stored == \E e \in Range(shared_networks_) : e.name = DeletedNetworkName
          IN /\ Keys(subnets_') = Keys(subnets_)
             /\ \A e \in Range(subnets_') : e.shared_network_name # DeletedNetworkName
             /\ Range(getSharedNetworkSubnets4(subnets_', cfg_last'.sel, DeletedNetworkName)) =
                    IF stored THEN {}
                    ELSE {e \in Range(subnets_) : e.network = DeletedNetworkName}
             /\ getSharedNetwork4(shared_networks_', cfg_last'.sel, DeletedNetworkName) = NullPtr
             /\ cfg_last'.n = IF stored THEN 1 ELSE 0
             /\ \A i \in Indices(subnets_) :
                   subnets_'[i] = [subnets_[i] EXCEPT
                       !.shared_network_name = IF @ = DeletedNetworkName THEN "" ELSE @,
                       !.network = IF stored /\ @ = DeletedNetworkName THEN "" ELSE @]]_vars

\* deleteSharedNetwork4 deleted a stored network and returned 1; the subnet that was
\* associated with it is still stored and is associated with no network any more
C17_Witness ==
    /\ cfg_last.op = "deleteSharedNetwork4"
    /\ cfg_last.n = 1
    /\ cfg_last.arg.detached = 1
    /\ Len(subnets_) = 1
    /\ \A e \in Range(subnets_) : e.shared_network_name = "" /\ e.network = ""
    /\ getSharedNetwork4(shared_networks_, cfg_last.sel, cfg_last.arg.name) = NullPtr

\* a result in non-decreasing order of modification time, each entity once
InTimeOrder(r) ==
    /\ \A i, j \in Indices(r) : i < j => r[i].mtime <= r[j].mtime
    /\ Cardinality(Range(r)) = Len(r)
\* the stored entities not older than the cutoff
Since(c, t) == {e \in Range(c) : e.mtime >= t}
\* the five getModified results for a selector and a cutoff
ModifiedResults(sel, t) ==
    <<getModifiedSubnets4(subnets_, sel, t),
      getModifiedSharedNetworks4(shared_networks_, sel, t),
      getModifiedOptionDefs4(option_defs_, sel, t),
      getModifiedOptions4(options_, sel, t),
      getModifiedGlobalParameters4(globals_, sel, t)>>
\* the collection the latest write went to, and the entity stored by it
WrittenTo ==
    IF cfg_last.op = "createUpdateSubnet4" THEN subnets_
    ELSE IF cfg_last.op = "createUpdateSharedNetwork4" THEN shared_networks_
    ELSE IF cfg_last.op = "createUpdateOptionDef4" THEN option_defs_
    ELSE IF cfg_last.op = "createUpdateOption4" THEN options_
    ELSE IF cfg_last.op = "createUpdateGlobalParameter4" THEN globals_
    ELSE <<>>
Written == {e \in Range(WrittenTo) :
               e = [cfg_last.arg EXCEPT !.tags = e.tags] /\ getTags(cfg_last.sel) \subseteq e.tags}

\* C19 as stated: with a cutoff t each getModified accessor returns exactly the
\* entities visible to the selector whose modification time is t or later, in
\* non-decreasing order of modification time
C19_VisibleSinceCutoff ==
    \A sel \in Selectors, t \in Cutoffs :
        LET r == ModifiedResults(sel, t)
        IN /\ \A k \in 1..5 : InTimeOrder(r[k])
           /\ Range(r[1]) = {e \in Since(subnets_, t) : Owns(e, sel)}
           /\ Range(r[2]) = {e \in Since(shared_networks_, t) : Owns(e, sel)}
           /\ Range(r[3]) = {e \in Since(option_defs_, t) : Owns(e, sel)}
           /\ Range(r[4]) = {e \in Since(options_, t) : Owns(e, sel)}
           /\ Range(r[5]) = {e \in Since(globals_, t) : Owns(e, sel)}

\* C19, what the code does: getModifiedSubnets4 and getModifiedSharedNetworks4 return
\* every stored entity modified at t or later whatever the selector; the accessors of
\* option definitions, options and global parameters return those of them that own a
\* tag of the selector or the all-servers tag; every result is in non-decreasing
\* order of modification time, and the entity stored by the latest write is reported
\* exactly for the cutoffs up to the time it was written with
C19_ModifiedSinceCutoff ==
    \A sel \in Selectors, t \in Cutoffs :
        LET r == ModifiedResults(sel, t)
        IN /\ \A k \in 1..5 : InTimeOrder(r[k])
           /\ Range(r[1]) = Since(subnets_, t)
           /\ Range(r[2]) = Since(shared_networks_, t)
           /\ Range(r[3]) = {e \in Since(option_defs_, t) : Owns(e, sel)}
           /\ Range(r[4]) = {e \in Since(options_, t) : Owns(e, sel)}
           /\ Range(r[5]) = {e \in Since(globals_, t) : Owns(e, sel)}
           /\ \A e \in Written :
                 Owns(e, sel) =>
                     ((\E k \in 1..5 : e \in Range(r[k])) <=> cfg_last.arg.mtime >= t)

\* a subnet written for all servers was replaced by a write for {srvA} with the
\* modification time 2; with the cutoff 2 and the selector {srvB} getModifiedSubnets4
\* returns it and a second subnet that srvA alone owns, and nothing for the cutoff 3
C19_Witness ==
    /\ cfg_last.op = "createUpdateSubnet4"
    /\ cfg_last.sel = SelectorONE("srvA")
    /\ cfg_last.arg.mtime = 2
    /\ \E e, o \in Range(subnets_) :
          /\ e.id = cfg_last.arg.id
          /\ e.tags = {"all", "srvA"}
          /\ o.tags = {"srvA"}
          /\ o.mtime = 2
          /\ Range(getModifiedSubnets4(subnets_, SelectorONE("srvB"), 2)) = {e, o}
    /\ getModifiedSubnets4(subnets_, SelectorONE("srvB"), 3) = <<>>

(***************************************************************************)
(* Options of a subnet, a shared network or a pool.  The option            *)
(* configuration of a target (its CfgOption) is the sequence of its        *)
(* options; a pool is a record of its first address and its options.       *)
(***************************************************************************)
MaxPool == 2
MaxOptions == 2

\* CfgOption::del(option_space, option_code): every option of the code in the space goes
CfgOptionDel(cfg, space, code) ==
    SelectSeq(cfg, LAMBDA o : ~(o.space = space /\ o.code = code))
\* CfgOption::add(desc, option_space)
CfgOptionAdd(cfg, option) == Append(cfg, option)
\* the del followed by the add of the three overloads
CfgOptionReplace(cfg, option) ==
    CfgOptionAdd(CfgOptionDel(cfg, option.space, option.code), option)

\* faulty variant: the all-servers tag of the target is not looked at
InSelectedServer_TagsOnly(e, server_selector) ==
    \E tag \in getTags(server_selector) : hasServerTag(e, tag)

\* the target is owned by all servers or by a tag of the selector
InSelectedServer(e, server_selector) ==
    hasAllServerTag(e) \/ \E tag \in getTags(server_selector) : hasServerTag(e, tag)

Written4(status, subs, nets) == [status |-> status, subnets |-> subs, shared_networks |-> nets]

\* createUpdateOption4(server_selector, shared_network_name, option)
createUpdateOption4SharedNetwork(subs, nets, server_selector, shared_network_name, option) ==
    LET found == {i \in Indices(nets) : nets[i].name = shared_network_name}
    IN IF found = {} THEN Written4("BadValue: non existing shared network", subs, nets)
       ELSE LET pos == CHOOSE i \in found : TRUE
            IN IF ~InSelectedServer(nets[pos], server_selector)
               THEN Written4("BadValue: not present in a selected server", subs, nets)
               ELSE Written4("ok", subs,
                             [nets EXCEPT ![pos].cfg_option = CfgOptionReplace(@, option)])

\* faulty variant: the option is added without deleting the stored one of its code
createUpdateOption4Subnet_AddOnly(subs, nets, server_selector, subnet_id, option) ==
    LET found == {i \in Indices(subs) : subs[i].id = subnet_id}
    IN IF found = {} THEN Written4("BadValue: non existing subnet ID", subs, nets)
       ELSE LET pos == CHOOSE i \in found : TRUE
            IN IF ~InSelectedServer(subs[pos], server_selector)
               THEN Written4("BadValue: not present in a selected server", subs, nets)
               ELSE Written4("ok", [subs EXCEPT ![pos].cfg_option = CfgOptionAdd(@, option)],
                             nets)

\* createUpdateOption4(server_selector, subnet_id, option)
createUpdateOption4Subnet(subs, nets, server_selector, subnet_id, option) ==
    LET found == {i \in Indices(subs) : subs[i].id = subnet_id}
    IN IF found = {} THEN Written4("BadValue: non existing subnet ID", subs, nets)
       ELSE LET pos == CHOOSE i \in found : TRUE
            IN IF ~InSelectedServer(subs[pos], server_selector)
               THEN Written4("BadValue: not present in a selected server", subs, nets)
               ELSE Written4("ok",
                             [subs EXCEPT ![pos].cfg_option = CfgOptionReplace(@, option)],
                             nets)

\* Subnet::getPool(Lease::TYPE_V4, pool_start_address): the pool of the subnet that
\* starts at the address, as an index into its pools; 0 for none
getPool(subnet, pool_start_address) ==
    IF \E k \in Indices(subnet.pools) : subnet.pools[k].first = pool_start_address
    THEN MinOf({k \in Indices(subnet.pools) : subnet.pools[k].first = pool_start_address})
    ELSE 0

\* faulty variant: a pool of a subnet outside the selected servers is written as well
createUpdateOption4Pool_AnyServer(subs, nets, server_selector, pool_start_address, option) ==
    LET with == {i \in Indices(subs) : getPool(subs[i], pool_start_address) # 0}
    IN IF with # {}
       THEN LET pos == MinOf(with)
                k == getPool(subs[pos], pool_start_address)
            IN Written4("ok",
                        [subs EXCEPT ![pos].pools[k].cfg_option = CfgOptionReplace(@, option)],
                        nets)
       ELSE Written4("BadValue: pool not present in a selected server", subs, nets)

\* createUpdateOption4(server_selector, pool_start_address, pool_end_address, option):
\* the first subnet in a selected server with such a pool gets the option
createUpdateOption4Pool(subs, nets, server_selector, pool_start_address, option) ==
    LET with == {i \in Indices(subs) : getPool(subs[i], pool_start_address) # 0}
        usable == {i \in with : InSelectedServer(subs[i], server_selector)}
        not_in_tags == with # usable
    IN IF usable # {}
       THEN LET pos == MinOf(usable)
                k == getPool(subs[pos], pool_start_address)
            IN Written4("ok",
                        [subs EXCEPT ![pos].pools[k].cfg_option = CfgOptionReplace(@, option)],
                        nets)
       ELSE IF not_in_tags THEN Written4("BadValue: non existing pool", subs, nets)
       ELSE Written4("BadValue: pool not present in a selected server", subs, nets)

(***************************************************************************)
(* SpecOpt: option writes to the targets of a store chosen at the start.   *)
(***************************************************************************)
PoolStarts == 1..MaxPool
\* the stores the writes start from: subnet 1, owned by srvA, with a pool starting at
\* 1; subnet 2, owned by all servers, with or without such a pool; and the shared
\* network "n1", owned by srvA
OptSubnet(id, tags, starts) ==
    [id |-> id, prefix |-> PrefixOf(id), mtime |-> 1, tags |-> tags,
     shared_network_name |-> "", network |-> "", cfg_option |-> <<>>,
     pools |-> [k \in 1..Len(starts) |-> [first |-> starts[k], cfg_option |-> <<>>]]]
OptStores ==
    {[subnets |-> <<OptSubnet(1, {"srvA"}, <<1>>), OptSubnet(2, {"all"}, p2)>>,
      shared_networks |-> <<[name |-> "n1", mtime |-> 1, tags |-> {"srvA"},
                             cfg_option |-> <<>>]>>] :
        p2 \in {<<>>, <<1>>}}
\* the options written: two codes in one space, and one of the codes in a second space
TargetOptionInputs ==
    {o \in OptionInputs : o.code = 1 \/ o.space = "dhcp4"}

InitOpt ==
    /\ family = 4
    /\ table = {}
    /\ last = NoCall
    /\ page = NoPage
    /\ stats_query = NoStats
    /\ mgr = Constructed
    /\ \E st \in OptStores : subnets_ = st.subnets /\ shared_networks_ = st.shared_networks
    /\ option_defs_ = <<>>
    /\ options_ = <<>>
    /\ globals_ = <<>>
    /\ cfg_last = CfgCall("none", SelectorALL, NullPtr, 0)

\* the option configurations of every target of the store
ConfigsOf(subs, nets) ==
    [i \in Indices(subs) |-> subs[i].cfg_option]
        \o [i \in Indices(nets) |-> nets[i].cfg_option]
        \o [i \in Indices(subs) |-> IF Len(subs[i].pools) > 0
                                    THEN subs[i].pools[1].cfg_option ELSE <<>>]
RECURSIVE SumLen(_)
SumLen(cfgs) == IF Len(cfgs) = 0 THEN 0 ELSE Len(cfgs[1]) + SumLen(SubSeq(cfgs, 2, Len(cfgs)))
\* the cap on a write: at most MaxOptions options are stored after it
OptionsWithinBounds == SumLen(ConfigsOf(subnets_', shared_networks_')) <= MaxOptions
\* the record of a write: the option is kept for a write that succeeded
OptionCall(op, sel, target, option, status) ==
    CfgCall(op, sel, [target |-> target, status |-> status,
                      option |-> IF status = "ok" THEN option ELSE NullPtr], 0)

CreateUpdateOption4SharedNetwork(sel, shared_network_name, option) ==
    LET res == createUpdateOption4SharedNetwork(subnets_, shared_networks_, sel,
                                                shared_network_name, option)
    IN /\ subnets_' = res.subnets
       /\ shared_networks_' = res.shared_networks
       /\ cfg_last' = OptionCall("createUpdateOption4 (shared network)", sel,
                                 shared_network_name, option, res.status)
       /\ UNCHANGED <<option_defs_, options_, globals_, page>>
       /\ LeaseIdle
       /\ OptionsWithinBounds

CreateUpdateOption4Subnet(sel, subnet_id, option) ==
    LET res == createUpdateOption4Subnet(subnets_, shared_networks_, sel, subnet_id, option)
    IN /\ subnets_' = res.subnets
       /\ shared_networks_' = res.shared_networks
       /\ cfg_last' = OptionCall("createUpdateOption4 (subnet)", sel, subnet_id, option,
                                 res.status)
       /\ UNCHANGED <<option_defs_, options_, globals_, page>>
       /\ LeaseIdle
       /\ OptionsWithinBounds

CreateUpdateOption4Pool(sel, pool_start_address, option) ==
    LET res == createUpdateOption4Pool(subnets_, shared_networks_, sel,
                                       pool_start_address, option)
    IN /\ subnets_' = res.subnets
       /\ shared_networks_' = res.shared_networks
       /\ cfg_last' = OptionCall("createUpdateOption4 (pool)", sel, pool_start_address,
                                 option, res.status)
       /\ UNCHANGED <<option_defs_, options_, globals_, page>>
       /\ LeaseIdle
       /\ OptionsWithinBounds

NextOpt ==
    \/ \E sel \in Selectors, name \in Names, opt \in TargetOptionInputs :
           CreateUpdateOption4SharedNetwork(sel, name, opt)
    \/ \E sel \in Selectors, id \in 1..(MaxSubnetId + 1), opt \in TargetOptionInputs :
           CreateUpdateOption4Subnet(sel, id, opt)
    \/ \E sel \in Selectors, start \in PoolStarts, opt \in TargetOptionInputs :
           CreateUpdateOption4Pool(sel, start, opt)

SpecOpt == InitOpt /\ [][NextOpt]_vars

(***************************************************************************)
(* Claims about the options of a target, checked under SpecOpt.            *)
(***************************************************************************)
\* an option configuration holds at most one option per space and code
OnePerSpaceCode(cfg) ==
    \A i, j \in Indices(cfg) : (cfg[i].space = cfg[j].space /\ cfg[i].code = cfg[j].code) => i = j
\* the options of a configuration other than those of the space and code of o
OtherOptions(cfg, o) == SelectSeq(cfg, LAMBDA x : ~(x.space = o.space /\ x.code = o.code))
\* a configuration after the write of o: o is its option of that space and code, and
\* the options of the other spaces and codes are the ones it had
WrittenInto(before, after, o) ==
    /\ \E i \in Indices(after) : after[i] = o
    /\ OnePerSpaceCode(after)
    /\ OtherOptions(after, o) = OtherOptions(before, o)
\* the write just made succeeded
WroteOption == cfg_last'.arg # NullPtr /\ cfg_last'.arg.status = "ok"
\* the configurations the write just made changed, as indices into ConfigsOf
ChangedConfigs ==
    {k \in Indices(ConfigsOf(subnets_, shared_networks_)) :
        ConfigsOf(subnets_', shared_networks_')[k] # ConfigsOf(subnets_, shared_networks_)[k]}
\* the three writes are repeated on the store they produced
WriteAgain ==
    LET sel == cfg_last'.sel
        t == cfg_last'.arg.target
        o == cfg_last'.arg.option
        op == cfg_last'.op
    IN IF op = "createUpdateOption4 (subnet)"
       THEN createUpdateOption4Subnet(subnets_', shared_networks_', sel, t, o)
       ELSE IF op = "createUpdateOption4 (shared network)"
       THEN createUpdateOption4SharedNetwork(subnets_', shared_networks_', sel, t, o)
       ELSE createUpdateOption4Pool(subnets_', shared_networks_', sel, t, o)

\* C18: after any sequence of createUpdateOption4 calls that target a subnet, a shared
\* network or a pool, every option configuration holds at most one option per space
\* and code; a write puts its option in the place of the stored option of that space
\* and code in one configuration and changes nothing else, so each option stored is
\* the one written last; and the same write made again leaves the store as it is
C18_OneOptionPerSpaceCode ==
    [][/\ \A k \in Indices(ConfigsOf(subnets_', shared_networks_')) :
             OnePerSpaceCode(ConfigsOf(subnets_', shared_networks_')[k])
       /\ WroteOption =>
             /\ Cardinality(ChangedConfigs) <= 1
             /\ \E k \in Indices(ConfigsOf(subnets_, shared_networks_)) :
                   /\ ChangedConfigs \subseteq {k}
                   /\ WrittenInto(ConfigsOf(subnets_, shared_networks_)[k],
                                  ConfigsOf(subnets_', shared_networks_')[k],
                                  cfg_last'.arg.option)
             /\ WriteAgain = Written4("ok", subnets_', shared_networks_')]_vars

\* an option of a subnet was written a second time with another value: the subnet
\* holds the second value alone, next to an option of another code
C18_Witness ==
    /\ cfg_last.op = "createUpdateOption4 (subnet)"
    /\ cfg_last.arg.status = "ok"
    /\ \E i \in Indices(subnets_) :
          /\ subnets_[i].id = cfg_last.arg.target
          /\ Len(subnets_[i].cfg_option) = 2
          /\ subnets_[i].cfg_option[2] = cfg_last.arg.option
          /\ subnets_[i].cfg_option[1].code # cfg_last.arg.option.code
          /\ cfg_last.arg.option.val = 2

(***************************************************************************)
(* The lease statistics cursor: PgSqlLeaseStatsQuery.                      *)
(***************************************************************************)
\* number of getNextRow calls followed on one cursor
MaxCalls == 4

\* the lease4_stat / lease6_stat table: the number of leases of each subnet, lease
\* type (v6) and state
StatKeyOf(f, r) ==
    [subnet_id |-> r.subnet_id, lease_type |-> IF f = 6 THEN r.lease_type ELSE TYPE_NA,
     state |-> r.state]
LeaseStat(f, t) ==
    {[subnet_id |-> k.subnet_id, lease_type |-> k.lease_type, state |-> k.state,
      leases |-> Cardinality({r \in t : StatKeyOf(f, r) = k})] :
        k \in {StatKeyOf(f, r) : r \in t}}

\* "ORDER BY subnet_id, lease_type, state" (lease_type is a column of lease6_stat only)
StatBefore(a, b) ==
    \/ a.subnet_id < b.subnet_id
    \/ a.subnet_id = b.subnet_id /\ a.lease_type < b.lease_type
    \/ a.subnet_id = b.subnet_id /\ a.lease_type = b.lease_type /\ a.state < b.state
\* "ORDER BY lease_type, state", the order of the statements of one subnet
StatBeforeInSubnet(a, b) ==
    \/ a.lease_type < b.lease_type
    \/ a.lease_type = b.lease_type /\ a.state < b.state

\* ALL_LEASE4_STATS / ALL_LEASE6_STATS
AllLeaseStats(f, t) ==
    CHOOSE s \in RowOrders(LeaseStat(f, t)) :
        \A i, j \in DOMAIN s : i < j => StatBefore(s[i], s[j])
\* SUBNET_LEASE4_STATS / SUBNET_LEASE6_STATS: "WHERE subnet_id = $1"
SubnetLeaseStats(f, t, subnet_id) ==
    CHOOSE s \in RowOrders({r \in LeaseStat(f, t) : r.subnet_id = subnet_id}) :
        \A i, j \in DOMAIN s : i < j => StatBeforeInSubnet(s[i], s[j])
\* SUBNET_RANGE_LEASE4_STATS / SUBNET_RANGE_LEASE6_STATS:
\* "WHERE subnet_id >= $1 and subnet_id <= $2"
SubnetRangeLeaseStats(f, t, first_subnet_id, last_subnet_id) ==
    CHOOSE s \in RowOrders({r \in LeaseStat(f, t) :
                               r.subnet_id >= first_subnet_id /\ r.subnet_id <= last_subnet_id}) :
        \A i, j \in DOMAIN s : i < j => StatBefore(s[i], s[j])

\* the constructors: no result set, next_row_ 0.  executed counts the executions of the
\* statement, fetched and ended record what getNextRow returned (rows, and the number
\* of times false), calls the number of getNextRow calls
PgSqlLeaseStatsQuery(statement, fetch_type, select_mode, first_subnet_id, last_subnet_id) ==
    [created |-> TRUE, select_mode |-> select_mode, first_subnet_id |-> first_subnet_id,
     last_subnet_id |-> last_subnet_id, fetch_type_ |-> fetch_type,
     statement_ |-> statement, parms |-> <<>>, status |-> "ok",
     result_set_ |-> <<>>, next_row_ |-> 0,
     executed |-> 0, fetched |-> <<>>, ended |-> 0, calls |-> 0]

\* the catalog entries of the statistics statements: name and nbparams
StatsStatements ==
    {[name |-> "all_lease4_stats", nbparams |-> 0],
     [name |-> "subnet_lease4_stats", nbparams |-> 1],
     [name |-> "subnet_range_lease4_stats", nbparams |-> 2],
     [name |-> "all_lease6_stats", nbparams |-> 0],
     [name |-> "subnet_lease6_stats", nbparams |-> 1],
     [name |-> "subnet_range_lease6_stats", nbparams |-> 2]}
\* tagged_statements[ALL_LEASE4_STATS] .. tagged_statements[SUBNET_RANGE_LEASE6_STATS], as
\* the startLeaseStatsQuery functions of the family choose them
StatsStatement(f, select_mode) ==
    CHOOSE st \in StatsStatements :
        st.name = (IF select_mode = "ALL_SUBNETS" THEN <<"all_lease4_stats", "all_lease6_stats">>
                   ELSE IF select_mode = "SINGLE_SUBNET"
                        THEN <<"subnet_lease4_stats", "subnet_lease6_stats">>
                        ELSE <<"subnet_range_lease4_stats", "subnet_range_lease6_stats">>)
                      [IF f = 4 THEN 1 ELSE 2]

\* faulty variant: the range is bound as (last, first)
StatsParms_Swapped(q) ==
    IF q.select_mode = "ALL_SUBNETS" THEN <<>>
    ELSE IF q.select_mode = "SUBNET_RANGE" THEN <<q.last_subnet_id, q.first_subnet_id>>
         ELSE <<q.first_subnet_id>>

\* the WHERE clause values start binds: none, the first subnet id, or the first and the
\* last subnet id
StatsParms(q) ==
    IF q.select_mode = "ALL_SUBNETS" THEN <<>>
    ELSE <<q.first_subnet_id>>
             \o (IF q.select_mode = "SUBNET_RANGE" THEN <<q.last_subnet_id>> ELSE <<>>)

\* PQexecPrepared of a statistics statement: the backend rejects a number of values
\* other than the number of parameters of the statement
StatsExec(f, t, statement, parms) ==
    IF Len(parms) # statement.nbparams
    THEN [status |-> "DbOperationError", rows |-> <<>>]
    ELSE [status |-> "ok",
          rows |-> IF statement.nbparams = 0 THEN AllLeaseStats(f, t)
                   ELSE IF statement.nbparams = 1 THEN SubnetLeaseStats(f, t, parms[1])
                        ELSE SubnetRangeLeaseStats(f, t, parms[1], parms[2])]

\* PgSqlLeaseStatsQuery::start
start(q, f, t) ==
    LET r == StatsExec(f, t, q.statement_, StatsParms(q))
    IN [q EXCEPT !.parms = StatsParms(q),
                 !.status = r.status,
                 !.result_set_ = r.rows,
                 !.executed = @ + 1]

\* the LeaseStatsRow filled from row number next_row_ of the result set
LeaseStatsRow(q, r) ==
    [subnet_id_ |-> r.subnet_id,
     lease_type_ |-> IF q.fetch_type_ THEN r.lease_type ELSE TYPE_NA,
     lease_state_ |-> r.state,
     state_count_ |-> r.leases]

\* faulty variant: the cursor does not move to the next row
getNextRow_NoAdvance(q) ==
    IF q.next_row_ >= Len(q.result_set_)
    THEN [q EXCEPT !.ended = @ + 1, !.calls = @ + 1]
    ELSE [q EXCEPT !.fetched = Append(@, LeaseStatsRow(q, q.result_set_[q.next_row_ + 1])),
                   !.calls = @ + 1]

\* PgSqlLeaseStatsQuery::getNextRow: the cursor after the call
getNextRow(q) ==
    IF q.next_row_ >= Len(q.result_set_)
    THEN [q EXCEPT !.ended = @ + 1, !.calls = @ + 1]
    ELSE [q EXCEPT !.fetched = Append(@, LeaseStatsRow(q, q.result_set_[q.next_row_ + 1])),
                   !.next_row_ = @ + 1,
                   !.calls = @ + 1]

\* the leases stored for the statistics queries
StatsLeases(f) ==
    IF f = 4
    THEN {[Base4(a) EXCEPT !.subnet_id = s, !.state = st] :
             a \in Addrs, s \in SubnetIds, st \in {STATE_DEFAULT, STATE_DECLINED}}
    ELSE {[Base6(a) EXCEPT !.subnet_id = s, !.type = ty] :
             a \in Addrs, s \in SubnetIds, ty \in {TYPE_NA, TYPE_PD}}
         \cup {[Base6(a) EXCEPT !.state = STATE_DECLINED] : a \in Addrs}

StatsIdle == UNCHANGED <<family, table, last, page, mgr>> /\ CfgIdle

\* startLeaseStatsQuery4() / startLeaseStatsQuery6()
StartLeaseStatsQuery ==
    /\ stats_query' = start(PgSqlLeaseStatsQuery(StatsStatement(family, "ALL_SUBNETS"), family = 6,
                                                 "ALL_SUBNETS", 0, 0), family, table)
    /\ StatsIdle

\* startSubnetLeaseStatsQuery4(subnet_id) / startSubnetLeaseStatsQuery6(subnet_id)
StartSubnetLeaseStatsQuery(subnet_id) ==
    /\ stats_query' = start(PgSqlLeaseStatsQuery(StatsStatement(family, "SINGLE_SUBNET"), family = 6,
                                                 "SINGLE_SUBNET", subnet_id, 0), family, table)
    /\ StatsIdle

\* startSubnetRangeLeaseStatsQuery4(first_subnet_id, last_subnet_id) / ...6(...)
StartSubnetRangeLeaseStatsQuery(first_subnet_id, last_subnet_id) ==
    /\ stats_query' = start(PgSqlLeaseStatsQuery(StatsStatement(family, "SUBNET_RANGE"), family = 6,
                                                 "SUBNET_RANGE", first_subnet_id,
                                                 last_subnet_id), family, table)
    /\ StatsIdle

\* getNextRow(row) on the cursor obtained last
GetNextRow ==
    /\ stats_query.created
    /\ stats_query.calls < MaxCalls
    /\ stats_query' = getNextRow(stats_query)
    /\ StatsIdle

NextStats ==
    \/ \E lease \in StatsLeases(family) : AddLease(lease)
    \/ \E addr \in AddrInputs(family) : DeleteLease(addr)
    \/ StartLeaseStatsQuery
    \/ \E subnet_id \in SubnetIds : StartSubnetLeaseStatsQuery(subnet_id)
    \/ \E first_subnet_id, last_subnet_id \in SubnetIds :
           StartSubnetRangeLeaseStatsQuery(first_subnet_id, last_subnet_id)
    \/ GetNextRow

SpecStats == Init /\ [][NextStats]_vars

(***************************************************************************)
(* Claims about the statistics cursor, checked under SpecStats.            *)
(***************************************************************************)
\* the rows of a result set as getNextRow hands them out
RowsOf(q) == [i \in 1..Len(q.result_set_) |-> LeaseStatsRow(q, q.result_set_[i])]
\* rows in the order subnet, lease type, state
InResultOrder(rows) ==
    \A i, j \in 1..Len(rows) : i < j =>
        \/ rows[i].subnet_id_ < rows[j].subnet_id_
        \/ rows[i].subnet_id_ = rows[j].subnet_id_ /\ rows[i].lease_type_ < rows[j].lease_type_
        \/ /\ rows[i].subnet_id_ = rows[j].subnet_id_
           /\ rows[i].lease_type_ = rows[j].lease_type_
           /\ rows[i].lease_state_ < rows[j].lease_state_
\* the step is a getNextRow call on the cursor
NextRowCalled == stats_query.created /\ stats_query'.created
                 /\ stats_query'.calls = stats_query.calls + 1
\* the cursor as obtained and as getNextRow leaves it: the statement was executed once,
\* the rows handed out are the first next_row_ rows of its result, in result order, and
\* false was returned only past the last row
CursorSound(q) ==
    /\ q.executed = 1
    /\ q.next_row_ <= Len(q.result_set_)
    /\ q.fetched = SubSeq(RowsOf(q), 1, q.next_row_)
    /\ InResultOrder(RowsOf(q))
    /\ q.ended > 0 => q.next_row_ = Len(q.result_set_)
    /\ q.calls = Len(q.fetched) + q.ended

\* C20: a cursor obtained from a startLeaseStatsQuery* call has executed its statement
\* once; the getNextRow calls hand out the rows of the result once each, in the order
\* subnet, lease type, state, and return false past the last row; after a false every
\* later call returns false; no call moves the cursor back or executes the statement
C20_CursorReadsResultOnce ==
    /\ [](stats_query.created => CursorSound(stats_query))
    /\ [][NextRowCalled =>
             /\ stats_query'.result_set_ = stats_query.result_set_
             /\ stats_query'.executed = stats_query.executed
             /\ stats_query'.next_row_ >= stats_query.next_row_
             /\ IF stats_query.next_row_ < Len(stats_query.result_set_)
                THEN /\ stats_query'.fetched =
                            Append(stats_query.fetched,
                                   RowsOf(stats_query)[stats_query.next_row_ + 1])
                     /\ stats_query'.next_row_ = stats_query.next_row_ + 1
                     /\ stats_query'.ended = 0
                ELSE /\ stats_query'.fetched = stats_query.fetched
                     /\ stats_query'.ended = stats_query.ended + 1
             /\ stats_query.ended > 0 => stats_query'.ended = stats_query.ended + 1]_vars

\* a cursor over two rows has handed out both and then returned false twice, while the
\* leases counted have changed since the statement was executed
C20_Witness ==
    /\ stats_query.created
    /\ stats_query.select_mode = "ALL_SUBNETS"
    /\ Len(stats_query.result_set_) = 2
    /\ Len(stats_query.fetched) = 2
    /\ stats_query.ended = 2
    /\ AllLeaseStats(family, table) # stats_query.result_set_

(***************************************************************************)
(* The getters of PgSqlLeaseMgr by hardware address, client id, subnet,    *)
(* DUID and IAID.                                                          *)
(***************************************************************************)
\* GET_LEASE4_HWADDR_SUBID: "... WHERE hwaddr = $1 AND subnet_id = $2"
getLease4HWAddrSubnet(t, hwaddr, subnet_id) ==
    GetLeaseSingle(4, {r \in t : r.hwaddr = hwaddr /\ r.subnet_id = subnet_id})

\* GET_LEASE4_CLIENTID_SUBID: "... WHERE client_id = $1 AND subnet_id = $2"
getLease4ClientIdSubnet(t, clientid, subnet_id) ==
    GetLeaseSingle(4, {r \in t : r.client_id = clientid /\ r.subnet_id = subnet_id})

\* getLeaseCollection(single = false) on a statement without ORDER BY: the rows come
\* in any order
GetLeasesAnyOrder(f, rows) == {GetLeaseCollection(f, s) : s \in RowOrders(rows)}

\* GET_LEASE4_HWADDR: "... WHERE hwaddr = $1"
getLease4HWAddr(t, hwaddr) == GetLeasesAnyOrder(4, {r \in t : r.hwaddr = hwaddr})

\* GET_LEASE4_CLIENTID: "... WHERE client_id = $1"
getLease4ClientId(t, clientid) == GetLeasesAnyOrder(4, {r \in t : r.client_id = clientid})

\* GET_LEASE4_SUBID / GET_LEASE6_SUBID: "... WHERE subnet_id = $1"
getLeasesSubnet(f, t, subnet_id) == GetLeasesAnyOrder(f, {r \in t : r.subnet_id = subnet_id})

\* GET_LEASE4 / GET_LEASE6: every row
getLeasesAll(f, t) == GetLeasesAnyOrder(f, t)

\* GET_LEASE6_DUID: "... WHERE duid = $1"
getLeases6DUID(t, duid) == GetLeasesAnyOrder(6, {r \in t : r.duid = duid})

\* GET_LEASE6_DUID_IAID: "... WHERE duid = $1 AND iaid = $2 AND lease_type = $3"
getLeases6DUIDIAID(t, lease_type, duid, iaid) ==
    GetLeasesAnyOrder(6, {r \in t : r.duid = duid /\ r.iaid = UiaidToSigned(iaid)
                                       /\ r.lease_type = lease_type})

(***************************************************************************)
(* Claims about the getters, checked under Spec.                           *)
(***************************************************************************)
\* the hardware addresses, client ids and DUIDs looked up
HWAddrKeys == {<<>>, Bytes(6), Bytes(MAX_HWADDR_LEN)}
ClientIdKeys == {<<1, 2>>, <<9, 9>>}
DuidKeys == {<<1, 2, 3>>, <<9, 9>>}

\* the results of the four single-result getters, with the rows their statements select
SingleLookups ==
    IF family = 4
    THEN {[rows |-> GetLease4AddrRows(table, toUint32(a)), res |-> getLease4(table, a)] :
              a \in AddrInputs(4)}
         \cup {[rows |-> {r \in table : r.hwaddr = h /\ r.subnet_id = s},
                res |-> getLease4HWAddrSubnet(table, h, s)] : h \in HWAddrKeys, s \in SubnetIds}
         \cup {[rows |-> {r \in table : r.client_id = c /\ r.subnet_id = s},
                res |-> getLease4ClientIdSubnet(table, c, s)] : c \in ClientIdKeys, s \in SubnetIds}
    ELSE {[rows |-> GetLease6AddrRows(table, toText(a), ty), res |-> getLease6(table, ty, a)] :
              a \in AddrInputs(6), ty \in {TYPE_NA, TYPE_TA, TYPE_PD}}

\* the results of the multi-result getters
MultiLookups ==
    getLeasesAll(family, table)
    \cup UNION {getLeasesSubnet(family, table, s) : s \in SubnetIds}
    \cup (IF family = 4
          THEN UNION {getLease4HWAddr(table, h) : h \in HWAddrKeys}
               \cup UNION {getLease4ClientId(table, c) : c \in ClientIdKeys}
          ELSE UNION {getLeases6DUID(table, d) : d \in DuidKeys}
               \cup UNION {getLeases6DUIDIAID(table, ty, d, i) :
                              ty \in {TYPE_NA, TYPE_PD}, d \in DuidKeys,
                              i \in {U32(1), [hi |-> 65535, lo |-> 65535]}})

\* C21 as stated: a single-result getter returns no lease when no row matches, the
\* lease of the row when exactly one row matches, and fails with MultipleRecords when
\* more than one row matches; the multi-result getters never fail with MultipleRecords
C21_OneRowOneLease ==
    /\ \A g \in SingleLookups :
          /\ g.rows = {} => g.res = Result("ok", FALSE, NoLease)
          /\ Cardinality(g.rows) = 1 => g.res.status = "ok" /\ g.res.found
          /\ Cardinality(g.rows) > 1 => g.res = Result("MultipleRecords", FALSE, NoLease)
    /\ \A m \in MultiLookups : m.status # "MultipleRecords"

\* C21 (amended): a single-result getter returns no lease when no row matches; when
\* exactly one row matches it returns the lease converted from that row, or fails with
\* the conversion error and no lease when the row cannot be converted (a user context
\* that is not a JSON map); when more than one row matches it fails with
\* MultipleRecords and returns no lease.  The multi-result getters never fail with
\* MultipleRecords.
C21_SingleResultGetters ==
    /\ \A g \in SingleLookups :
          /\ g.rows = {} => g.res = Result("ok", FALSE, NoLease)
          /\ \A r \in g.rows : g.rows = {r} =>
                 g.res = IF FromRow(family, r).ok
                         THEN Result("ok", TRUE, FromRow(family, r).lease)
                         ELSE Result("DbOperationError", FALSE, NoLease)
          /\ Cardinality(g.rows) > 1 => g.res = Result("MultipleRecords", FALSE, NoLease)
    /\ \A m \in MultiLookups : m.status # "MultipleRecords"

\* two v4 leases of one hardware address and subnet are stored: the lookup by hardware
\* address and subnet fails with MultipleRecords, the lookup by hardware address
\* returns both, and the lookup by address returns one
C21_Witness ==
    /\ family = 4
    /\ \E h \in HWAddrKeys, s \in SubnetIds :
          /\ getLease4HWAddrSubnet(table, h, s).status = "MultipleRecords"
          /\ \E m \in getLease4HWAddr(table, h) : m.status = "ok" /\ Len(m.leases) = 2
    /\ \E a \in AddrInputs(4) : getLease4(table, a).found

(***************************************************************************)
(* Construction of PgSqlLeaseMgr.                                          *)
(***************************************************************************)
\* the schema versions a database may hold are 0..MaxVersion in each component
MaxVersion == 2

\* tagged_statements: the names of the catalog entries before the sentinel
tagged_statements ==
    <<"delete_lease4", "delete_lease4_state_expired", "delete_lease6",
      "delete_lease6_state_expired", "get_lease4", "get_lease4_addr",
      "get_lease4_clientid", "get_lease4_clientid_subid", "get_lease4_hwaddr",
      "get_lease4_hwaddr_subid", "get_lease4_page", "get_lease4_subid",
      "get_lease4_expire", "get_lease6", "get_lease6_addr", "get_lease6_duid_iaid",
      "get_lease6_duid_iaid_subid", "get_lease6_page", "get_lease6_subid",
      "get_lease6_duid", "get_lease6_expire", "insert_lease4", "insert_lease6",
      "update_lease4", "update_lease6", "all_lease4_stats", "subnet_lease4_stats",
      "subnet_range_lease4_stats", "all_lease6_stats", "subnet_lease6_stats",
      "subnet_range_lease6_stats">>

\* PG_SCHEMA_VERSION_MAJOR, PG_SCHEMA_VERSION_MINOR: the version the code expects
code_version == [first |-> 1, second |-> 1]

\* what the constructor finds: whether the database can be connected to, the row of
\* schema_version (or no readable row), and the value of NUM_STATEMENTS of the build
OpenInputs ==
    [connectable : BOOLEAN,
     schema_version : {NullPtr} \cup [first : 0..MaxVersion, second : 0..MaxVersion],
     NUM_STATEMENTS : {Len(tagged_statements) - 1, Len(tagged_statements),
                       Len(tagged_statements) + 1}]

\* the constructor's position and what it has done: pc is new, opened, preparing, done
\* or failed; log lists the steps made on the connection
Constructing(env) ==
    [pc |-> "new", status |-> "ok", what |-> "", env |-> env, open |-> FALSE,
     db_version |-> NullPtr, prepared |-> 0, log |-> <<>>]

Failed(m, status, what) == [m EXCEPT !.pc = "failed", !.status = status, !.what = what]

\* conn_.openDatabase()
openDatabase(m) ==
    IF ~m.env.connectable THEN Failed(m, "DbOpenError", "connect")
    ELSE [m EXCEPT !.pc = "opened", !.open = TRUE, !.log = Append(@, "open")]

\* PgSqlLeaseMgr::getVersion: the (version, minor) row, or none when the query fails
getVersion(m) == m.env.schema_version

\* faulty variant: a database of a higher minor version is accepted
ValidateSchemaVersion_AtLeast(m) ==
    LET db_version == getVersion(m)
    IN IF db_version = NullPtr
       THEN Failed([m EXCEPT !.log = Append(@, "version")], "DbOperationError", "version query")
       ELSE IF code_version.first # db_version.first \/ code_version.second > db_version.second
       THEN Failed([m EXCEPT !.db_version = db_version, !.log = Append(@, "version")],
                   "DbOpenError", "schema version mismatch")
       ELSE [m EXCEPT !.pc = "preparing", !.db_version = db_version,
                      !.log = Append(@, "version")]

\* the constructor's "Validate schema version first"
ValidateSchemaVersion(m) ==
    LET db_version == getVersion(m)
    IN IF db_version = NullPtr
       THEN Failed([m EXCEPT !.log = Append(@, "version")], "DbOperationError", "version query")
       ELSE IF code_version # db_version
       THEN Failed([m EXCEPT !.db_version = db_version, !.log = Append(@, "version")],
                   "DbOpenError", "schema version mismatch")
       ELSE [m EXCEPT !.pc = "preparing", !.db_version = db_version,
                      !.log = Append(@, "version")]

\* conn_.prepareStatement(tagged_statements[i])
prepareStatement(m) ==
    [m EXCEPT !.prepared = @ + 1, !.log = Append(@, tagged_statements[m.prepared + 1])]

\* faulty variant: the number of statements prepared is not checked
CheckStatementCount_Unchecked(m) == [m EXCEPT !.pc = "done"]

\* the constructor's "if (i != NUM_STATEMENTS)"
CheckStatementCount(m) ==
    IF m.prepared # m.env.NUM_STATEMENTS
    THEN Failed(m, "DbOpenError", "statement count")
    ELSE [m EXCEPT !.pc = "done"]

InitOpen ==
    /\ family = 4
    /\ table = {}
    /\ last = NoCall
    /\ page = NoPage
    /\ stats_query = NoStats
    /\ CfgEmpty
    /\ \E env \in OpenInputs : mgr = Constructing(env)

MgrIdle == UNCHANGED <<family, table, last, page, stats_query>> /\ CfgIdle

OpenDatabase ==
    /\ mgr.pc = "new"
    /\ mgr' = openDatabase(mgr)
    /\ MgrIdle

ValidateVersion ==
    /\ mgr.pc = "opened"
    /\ mgr' = ValidateSchemaVersion(mgr)
    /\ MgrIdle

PrepareStatement ==
    /\ mgr.pc = "preparing"
    /\ mgr.prepared < Len(tagged_statements)
    /\ mgr' = prepareStatement(mgr)
    /\ MgrIdle

CheckCount ==
    /\ mgr.pc = "preparing"
    /\ mgr.prepared = Len(tagged_statements)
    /\ mgr' = CheckStatementCount(mgr)
    /\ MgrIdle

NextOpen == OpenDatabase \/ ValidateVersion \/ PrepareStatement \/ CheckCount

SpecOpen == InitOpen /\ [][NextOpen]_vars

(***************************************************************************)
(* Claims about the construction, checked under SpecOpen.                  *)
(***************************************************************************)
\* the constructor has ended, with a store object or with an error
Ended == mgr.pc \in {"done", "failed"}
\* the catalog does not hold NUM_STATEMENTS entries
CountMismatch == Len(tagged_statements) # mgr.env.NUM_STATEMENTS
\* the constructor came to compare the number of statements prepared
CountCompared == Ended /\ mgr.prepared = Len(tagged_statements)

\* C22 as stated: when the number of catalog entries differs from NUM_STATEMENTS the
\* construction fails with SchemaMismatchError and produces no store object
C22_SchemaMismatchError ==
    (CountCompared /\ CountMismatch) => mgr.pc = "failed" /\ mgr.status = "SchemaMismatchError"

\* C22 (amended): when the number of catalog entries differs from NUM_STATEMENTS the
\* construction never produces a store object; once the connection is open, the schema
\* version matches and every catalog entry has been prepared, it fails with DbOpenError
\* (the error of a schema version mismatch, told apart by its message only)
C22_CountMismatchFails ==
    /\ (mgr.pc = "done") => ~CountMismatch
    /\ (CountCompared /\ CountMismatch) =>
           /\ mgr.pc = "failed"
           /\ mgr.status = "DbOpenError"
           /\ mgr.what = "statement count"

\* a catalog one entry short of NUM_STATEMENTS was prepared in full and the
\* construction failed on the count
C22_Witness ==
    /\ mgr.pc = "failed"
    /\ mgr.what = "statement count"
    /\ mgr.prepared = Len(tagged_statements)
    /\ mgr.env.NUM_STATEMENTS = Len(tagged_statements) + 1

\* C23: the construction compares the (major, minor) version stored in the database
\* with the version the code expects for equality: a difference in either component,
\* higher or lower, fails it with DbOpenError; the comparison is made after the
\* connection is opened and before any catalog statement is prepared
C23_VersionCheckedFirst ==
    /\ (mgr.db_version # NullPtr /\ mgr.db_version # code_version) =>
           /\ mgr.pc = "failed"
           /\ mgr.status = "DbOpenError"
           /\ mgr.what = "schema version mismatch"
           /\ mgr.prepared = 0
    /\ (mgr.pc \in {"preparing", "done"} \/ mgr.prepared > 0) => mgr.db_version = code_version
    /\ mgr.db_version # NullPtr => mgr.open /\ mgr.db_version = mgr.env.schema_version
    /\ Len(mgr.log) >= 1 => mgr.log[1] = "open"
    /\ Len(mgr.log) >= 2 => mgr.log[2] = "version"
    /\ \A i \in 1..Len(mgr.log) : (i > 2) = (\E k \in 1..Len(tagged_statements) :
                                                 mgr.log[i] = tagged_statements[k])
    /\ Len(mgr.log) = (IF mgr.open THEN 1 ELSE 0)
                      + (IF mgr.open /\ mgr.pc # "opened" THEN 1 ELSE 0) + mgr.prepared

\* a database whose major version is the expected one and whose minor version is
\* higher was opened and refused, with no statement prepared
C23_Witness ==
    /\ mgr.pc = "failed"
    /\ mgr.what = "schema version mismatch"
    /\ mgr.db_version = [first |-> code_version.first, second |-> code_version.second + 1]
    /\ mgr.log = <<"open", "version">>

(***************************************************************************)
(* Claims about the length bounds and the conversions, checked under Spec. *)
(***************************************************************************)
\* the latest call was an addLease or an updateLease
Wrote == last.op \in {"add", "update"}
\* the hardware address or (v4) the client id of a lease is longer than its maximum
OverLong(f, lease) ==
    \/ ~lease.hwaddr.null /\ Len(lease.hwaddr.hwaddr) > MAX_HWADDR_LEN
    \/ f = 4 /\ ~lease.client_id.null /\ Len(lease.client_id.id) > MAX_CLIENT_ID_LEN

\* C24: addLease and updateLease fail, and leave the table as it was, for every lease
\* whose hardware address is longer than MAX_HWADDR_LEN or whose (v4) client id is
\* longer than MAX_CLIENT_ID_LEN; no stored row holds a hardware address or a client id
\* longer than its maximum, and none holds a shortened copy of a rejected one
C24_OverLongRejected ==
    /\ [](\A r \in table : /\ Len(r.hwaddr) <= MAX_HWADDR_LEN
                           /\ family = 4 => Len(r.client_id) <= MAX_CLIENT_ID_LEN)
    /\ [][(Wrote' /\ OverLong(family, last'.lease)) =>
              /\ last'.status = "DbOperationError"
              /\ ~last'.ret
              /\ table' = table]_vars

\* a lease with a hardware address of MAX_HWADDR_LEN + 1 bytes was passed to updateLease
\* for a stored address and refused, while a hardware address of MAX_HWADDR_LEN bytes
\* is stored
C24_Witness ==
    /\ last.op = "update"
    /\ Len(last.lease.hwaddr.hwaddr) = MAX_HWADDR_LEN + 1
    /\ last.status = "DbOperationError"
    /\ StoredBefore(last.lease)
    /\ \E r \in table : Len(r.hwaddr) = MAX_HWADDR_LEN

(***************************************************************************)
(* The exceptions of the row exchange, and the specification of the        *)
(* conversion failures: leases are written and read over a table that may  *)
(* hold a row the store did not write.                                     *)
(***************************************************************************)
\* the exception createBindForSend throws for a lease it cannot bind:
\* "Could not create bind array from Lease4: <address>, reason: <what>"
createBindForSendError(f, lease) ==
    [type |-> "DbOperationError",
     text |-> "Could not create bind array from Lease",
     address |-> lease.addr,
     reason |-> IF f = 6 /\ lease.duid.null THEN "IPv6 Lease cannot have a null DUID"
                ELSE "Hardware address length exceeds maximum allowed"]

\* what makes convertFromDatabase throw on a row, "" when nothing does
ConversionFailure(f, r) ==
    IF f = 6 /\ ~LeaseTypeOK(r.lease_type) THEN "Invalid lease type"
    ELSE IF Len(r.user_context) = 0 THEN ""
    ELSE IF ElementFromJSON(r.user_context) = BadElement THEN "JSONError"
    ELSE IF ElementFromJSON(r.user_context).type # "map" THEN "user context is not a JSON map"
    ELSE ""

\* faulty variant: the exception of a row names the address of the row
convertFromDatabaseError_Address(f, r) ==
    [type |-> "DbOperationError",
     text |-> "Could not convert data to Lease",
     address |-> FromRow(f, r).lease.addr,
     reason |-> ConversionFailure(f, r)]

\* the exception convertFromDatabase throws for a row it cannot convert:
\* "Could not convert data to Lease4, reason: <what>"
convertFromDatabaseError(f, r) ==
    [type |-> "DbOperationError",
     text |-> "Could not convert data to Lease",
     address |-> NullPtr,
     reason |-> ConversionFailure(f, r)]

\* the leases written: a good one, one with a JSON string as user context, one with an
\* over-long hardware address and (v6) one without a DUID
ConvLeases(f) ==
    IF f = 4
    THEN UNION {{Base4(a), [Base4(a) EXCEPT !.ctx = Ctx(StringElement("x"))],
                 [Base4(a) EXCEPT !.hwaddr = HWAddr(Bytes(MAX_HWADDR_LEN + 1), HTYPE_ETHER,
                                                   HWADDR_SOURCE_UNKNOWN)]} : a \in Addrs}
    ELSE UNION {{Base6(a), [Base6(a) EXCEPT !.ctx = Ctx(StringElement("x"))],
                 [Base6(a) EXCEPT !.duid = NullId],
                 [Base6(a) EXCEPT !.hwaddr = HWAddr(Bytes(MAX_HWADDR_LEN + 1), HTYPE_ETHER,
                                                   HWADDR_SOURCE_DUID)]} : a \in Addrs}

\* rows put into the table by other means than the store: a user context that is not
\* JSON, and (v6) a lease type that is none of NA, TA and PD
ForeignRows(f) ==
    IF f = 4
    THEN {[Lease4Bind(Base4(1)) EXCEPT !.user_context = <<Punct("{")>>]}
    ELSE {[Lease6Bind(Base6(1)) EXCEPT !.user_context = <<Punct("{")>>],
          [Lease6Bind(Base6(1)) EXCEPT !.lease_type = TYPE_V4],
          [Lease6Bind(Base6(1)) EXCEPT !.lease_type = TYPE_V4,
                                       !.user_context = <<StrTok("x")>>]}

InitConv ==
    /\ family \in {4, 6}
    /\ table \in {{}} \cup {{r} : r \in ForeignRows(family)}
    /\ last = NoCall
    /\ page = NoPage
    /\ stats_query = NoStats
    /\ mgr = Constructed
    /\ CfgEmpty

\* the rows GET_LEASE4_ADDR / GET_LEASE6_ADDR select for a lookup
LookupRows(f, t, type, addr) ==
    IF f = 4 THEN GetLease4AddrRows(t, toUint32(addr)) ELSE GetLease6AddrRows(t, toText(addr), type)

\* getLease4(addr) / getLease6(lease_type, addr), with the exception thrown
GetLease(lease_type, addr) ==
    LET rows == LookupRows(family, table, lease_type, addr)
        res == IF family = 4 THEN getLease4(table, addr) ELSE getLease6(table, lease_type, addr)
    IN /\ last' = [op |-> "get", addr |-> addr, type |-> lease_type, status |-> res.status,
                   found |-> res.found, lease |-> res.lease, rows |-> rows,
                   error |-> IF res.status = "DbOperationError"
                             THEN convertFromDatabaseError(family, CHOOSE r \in rows : TRUE)
                             ELSE NullPtr]
       /\ UNCHANGED <<family, table, page, stats_query, mgr>>
       /\ CfgIdle

\* getLeases4() / getLeases6(), with the exception of the first row that does not convert
GetLeases ==
    \E s \in RowOrders(table) :
        LET res == GetLeaseCollection(family, s)
            bad == {i \in 1..Len(s) : ~FromRow(family, s[i]).ok}
        IN /\ last' = [op |-> "getLeases", status |-> res.status, leases |-> res.leases,
                       rows |-> table,
                       error |-> IF res.status = "DbOperationError"
                                 THEN convertFromDatabaseError(family, s[MinOf(bad)])
                                 ELSE NullPtr]
           /\ UNCHANGED <<family, table, page, stats_query, mgr>>
           /\ CfgIdle

NextConv ==
    \/ \E lease \in ConvLeases(family) : AddLease(lease)
    \/ \E lease \in ConvLeases(family) : UpdateLease(lease)
    \/ \E lease_type \in {TYPE_NA, TYPE_V4}, addr \in AddrInputs(family) :
           GetLease(lease_type, addr)
    \/ GetLeases

SpecConv == InitConv /\ [][NextConv]_vars

(***************************************************************************)
(* Claims about the conversion failures, checked under SpecConv.           *)
(***************************************************************************)
\* the latest call failed in createBindForSend or in convertFromDatabase
WriteFailed == last.op \in {"add", "update"} /\ last.status = "DbOperationError"
ReadFailed == last.op \in {"get", "getLeases"} /\ last.status = "DbOperationError"
\* the exception of the latest call
Thrown == IF last.op \in {"add", "update"} THEN createBindForSendError(family, last.lease)
          ELSE last.error
\* the latest call returned no lease
NothingReturned ==
    IF last.op = "get" THEN ~last.found /\ last.lease = NoLease
    ELSE IF last.op = "getLeases" THEN last.leases = <<>>
    ELSE ~last.ret
\* the addresses of the rows of the latest read that do not convert
Offending == {FromRow(family, r).lease.addr : r \in {x \in last.rows : ~FromRow(family, x).ok}}

\* C25 as stated: every conversion failure is reported as DataConversionError naming
\* the offending address and the cause, returns no lease and changes no stored row
C25_DataConversionError ==
    [][(WriteFailed' \/ ReadFailed') =>
          /\ Thrown'.type = "DataConversionError"
          /\ Thrown'.reason # ""
          /\ WriteFailed' => Thrown'.address = last'.lease.addr
          /\ ReadFailed' => Thrown'.address \in Offending'
          /\ NothingReturned'
          /\ table' = table]_vars

\* C25 (amended): a lease that createBindForSend cannot bind (over-long hardware
\* address, v6 lease without DUID) makes addLease / updateLease fail with
\* DbOperationError naming the lease's address and the cause; a row that
\* convertFromDatabase cannot convert (user context that is not JSON or not a JSON map,
\* v6 lease type other than NA, TA, PD) makes the getter fail with DbOperationError
\* giving the cause but not the address; the failed call returns no lease, a
\* multi-result getter returning none of the other rows either, and the table is
\* unchanged
C25_ConversionFailures ==
    [][/\ (WriteFailed' \/ ReadFailed') =>
             /\ Thrown'.type = "DbOperationError"
             /\ Thrown'.reason # ""
             /\ WriteFailed' => Thrown'.address = last'.lease.addr
             /\ ReadFailed' => Thrown'.address = NullPtr /\ Offending' # {}
             /\ NothingReturned'
             /\ table' = table
       /\ last'.op \in {"add", "update"} => (WriteFailed' = ~BindOK(family, last'.lease))
       /\ last'.op = "getLeases" =>
             (ReadFailed' = \E r \in table : ConversionFailure(family, r) # "")
       /\ last'.op = "get" =>
             \A r \in last'.rows :
                 /\ ReadFailed' = (ConversionFailure(family, r) # "")
                 /\ ReadFailed' => Thrown'.reason = ConversionFailure(family, r)]_vars

\* a v6 lease with a JSON string as user context was stored by addLease, and the lookup
\* of its address then failed on the conversion
C25_Witness ==
    /\ family = 6
    /\ last.op = "get"
    /\ last.status = "DbOperationError"
    /\ last.error.reason = "user context is not a JSON map"
    /\ \E r \in table : r.address = toText(last.addr) /\ r.user_context = <<StrTok("x")>>

(***************************************************************************)
(* The IAID column: v6 leases of every kind of IAID are added, deleted and *)
(* looked up by DUID and IAID.                                             *)
(***************************************************************************)
\* GET_LEASE6_DUID_IAID_SUBID:
\* "... WHERE lease_type = $1 AND duid = $2 AND iaid = $3 AND subnet_id = $4"
getLeases6DUIDIAIDSubnet(t, lease_type, duid, iaid, subnet_id) ==
    GetLeasesAnyOrder(6, {r \in t : r.lease_type = lease_type /\ r.duid = duid
                                       /\ r.iaid = UiaidToSigned(iaid)
                                       /\ r.subnet_id = subnet_id})

\* the IAIDs written: 0, 1, 2^31 - 1, 2^31, 2^32 - 1 and values around them
IaidInputs == {[hi |-> h, lo |-> l] : h \in {0, 32767, 32768, 65535}, l \in {0, 1, 65535}}
IaidLeases == {[Base6(a) EXCEPT !.iaid = i] : a \in Addrs, i \in IaidInputs}

InitIaid ==
    /\ family = 6
    /\ table = {}
    /\ last = NoCall
    /\ page = NoPage
    /\ stats_query = NoStats
    /\ mgr = Constructed
    /\ CfgEmpty

NextIaid ==
    \/ \E lease \in IaidLeases : AddLease(lease)
    \/ \E lease \in IaidLeases : UpdateLease(lease)
    \/ \E addr \in AddrInputs(6) : DeleteLease(addr)

SpecIaid == InitIaid /\ [][NextIaid]_vars

\* the 32 bits of a signed integer, as an unsigned value
BitsOf(i) == [hi |-> (i \div 65536) % 65536, lo |-> i % 65536]
\* a result of a multi-result getter holds a lease of this address and IAID
Finds(results, lease) ==
    \A res \in results :
        /\ res.status = "ok"
        /\ \E k \in 1..Len(res.leases) :
              res.leases[k].addr = lease.addr /\ res.leases[k].iaid = lease.iaid

\* C26: for every unsigned 32-bit IAID the value bound for the iaid column has the
\* same 32 bits read as a signed integer (negative from 2^31 on), the column read back
\* gives the IAID that was written, and getLeases6(type, duid, iaid) and
\* getLeases6(type, duid, iaid, subnet_id) bind the same value, so that a lease stored
\* with that IAID is found under it and under no other IAID
C26_IaidReinterpreted ==
    /\ \A i \in IaidInputs :
          /\ BitsOf(UiaidToSigned(i)) = i
          /\ (UiaidToSigned(i) < 0) = (i.hi >= 32768)
          /\ UiaidToUnsigned(UiaidToSigned(i)) = i
    /\ \A r \in table :
          LET lease == Lease6FromRow(r).lease
          IN /\ BitsOf(r.iaid) = lease.iaid
             /\ Finds(getLeases6DUIDIAID(table, lease.type, lease.duid.id, lease.iaid), lease)
             /\ Finds(getLeases6DUIDIAIDSubnet(table, lease.type, lease.duid.id, lease.iaid,
                                               lease.subnet_id), lease)
             /\ \A i \in IaidInputs \ {lease.iaid} :
                    ~Finds(getLeases6DUIDIAID(table, lease.type, lease.duid.id, i), lease)
    /\ (last.op \in {"add", "update"} /\ last.status = "ok" /\ (last.op = "add" => last.ret)) =>
          \E r \in table : /\ r.address = toText(last.lease.addr)
                           /\ Lease6FromRow(r).lease.iaid = last.lease.iaid

\* a lease with IAID 2^32 - 1 and one with IAID 2^31 are stored, both as negative
\* column values, and each is found by its IAID
C26_Witness ==
    /\ \E r \in table : r.iaid = -1
    /\ \E r \in table : r.iaid < -1 /\ BitsOf(r.iaid) = [hi |-> 32768, lo |-> 0]
    /\ \E res \in getLeases6DUIDIAID(table, TYPE_NA, <<1, 2, 3>>, [hi |-> 65535, lo |-> 65535]) :
          Len(res.leases) = 1

(***************************************************************************)
(* The expiration column: leases of finite and infinite valid lifetime are *)
(* added, updated and deleted.                                             *)
(***************************************************************************)
\* the valid lifetimes written: 0, 1, 2, five hundred days, one more, and the sentinel
LftInputs == {U32(0), U32(1), U32(2), U32(FIVEHUNDREDDAYS), U32(FIVEHUNDREDDAYS + 1),
              INFINITY_LFT}
LftLeases(f) ==
    {[(IF f = 4 THEN Base4(a) ELSE Base6(a)) EXCEPT !.valid_lft = v, !.cltt = c] :
        a \in Addrs, v \in LftInputs, c \in 0..MaxCltt}

NextLft ==
    \/ \E lease \in LftLeases(family) : AddLease(lease)
    \/ \E lease \in LftLeases(family) : UpdateLease(lease)
    \/ \E addr \in AddrInputs(family) : DeleteLease(addr)

SpecLft == Init /\ [][NextLft]_vars

\* the row stored for the lease of the latest addLease / updateLease that succeeded
WrittenRows ==
    IF last.op \in {"add", "update"} /\ last.status = "ok" /\ (last.op = "add" => last.ret)
    THEN {r \in table : r.address = AddrKey(family, last.lease.addr)}
    ELSE {}

\* C27: a lease of infinite valid lifetime (0xFFFFFFFF) is stored with the expiration
\* cltt + 500 days; a lease of finite valid lifetime v with the expiration cltt + v.  In
\* both cases the valid_lifetime column holds the lifetime as given, the lease read back
\* has that column's value as its valid lifetime and the cltt that was written
C27_InfiniteLifetimeSurrogate ==
    /\ \A r \in WrittenRows :
          /\ r.valid_lifetime = last.lease.valid_lft
          /\ last.lease.valid_lft = INFINITY_LFT => r.expire = last.lease.cltt + FIVEHUNDREDDAYS
          /\ last.lease.valid_lft # INFINITY_LFT =>
                 r.expire = last.lease.cltt + U32Val(last.lease.valid_lft)
          /\ FromRow(family, r).lease.cltt = last.lease.cltt
          /\ FromRow(family, r).lease.valid_lft = last.lease.valid_lft
    /\ \A r \in table :
          /\ FromRow(family, r).lease.valid_lft = r.valid_lifetime
          /\ r.valid_lifetime = INFINITY_LFT =>
                 FromRow(family, r).lease.cltt = r.expire - FIVEHUNDREDDAYS
          /\ r.valid_lifetime # INFINITY_LFT =>
                 FromRow(family, r).lease.cltt = r.expire - U32Val(r.valid_lifetime)

\* a lease of infinite valid lifetime and cltt 1 was written: its row expires at
\* 1 + 500 days and still holds the sentinel, next to a row of lifetime 500 days
C27_Witness ==
    /\ \E r \in WrittenRows : /\ r.valid_lifetime = INFINITY_LFT
                              /\ r.expire = 1 + FIVEHUNDREDDAYS
                              /\ FromRow(family, r).lease.cltt = 1
    /\ \E r \in table : r.valid_lifetime = U32(FIVEHUNDREDDAYS)

(***************************************************************************)
(* addLease on a backend that may fail the execution of the insert.        *)
(***************************************************************************)
\* the executions of the insert a call could make, each with its own backend fault
MaxExecs == 2
\* the SQLSTATE addLeaseCommon compares the failure with
DUPLICATE_KEY == "23505"

\* PQexecPrepared of INSERT_LEASE4 / INSERT_LEASE6: a statement that fails changes no row
PQexecPrepared(t, row, fault) ==
    IF fault THEN [status |-> "PGRES_FATAL_ERROR", sqlstate |-> "08006", table |-> t]
    ELSE IF InsertIsDuplicate(t, row)
         THEN [status |-> "PGRES_FATAL_ERROR", sqlstate |-> DUPLICATE_KEY, table |-> t]
         ELSE [status |-> "PGRES_COMMAND_OK", sqlstate |-> "00000", table |-> InsertLease(t, row)]

\* the outcome of addLeaseCommon after execs executions, the last with result r
AddOutcome(r, execs) ==
    IF r.status # "PGRES_COMMAND_OK"
    THEN IF r.sqlstate = DUPLICATE_KEY
         THEN [status |-> "ok", ret |-> FALSE, sqlstate |-> r.sqlstate, execs |-> execs,
               table |-> r.table]
         ELSE [status |-> "DbOperationError", ret |-> FALSE, sqlstate |-> r.sqlstate,
               execs |-> execs, table |-> r.table]
    ELSE [status |-> "ok", ret |-> TRUE, sqlstate |-> r.sqlstate, execs |-> execs,
          table |-> r.table]

\* faulty variant: an execution that failed for another reason is repeated once
addLeaseCommonExec_Retry(t, row, faults) ==
    LET r == PQexecPrepared(t, row, faults[1])
    IN IF r.status # "PGRES_COMMAND_OK" /\ r.sqlstate # DUPLICATE_KEY
       THEN AddOutcome(PQexecPrepared(t, row, faults[2]), 2)
       ELSE AddOutcome(r, 1)

\* addLeaseCommon with the backend's result: faults[i] tells whether the i-th execution
\* of the statement would fail in the backend; the code executes the statement once
addLeaseCommonExec(t, row, faults) == AddOutcome(PQexecPrepared(t, row, faults[1]), 1)

\* addLease(lease) on a backend with the given faults
AddLeaseExec(lease, faults) ==
    /\ IF ~BindOK(family, lease)
       THEN /\ table' = table
            /\ last' = [op |-> "add", lease |-> lease, status |-> "DbOperationError",
                        ret |-> FALSE, sqlstate |-> "", execs |-> 0, faults |-> faults]
       ELSE LET out == addLeaseCommonExec(table, Bind(family, lease), faults)
            IN /\ table' = out.table
               /\ last' = [op |-> "add", lease |-> lease, status |-> out.status,
                           ret |-> out.ret, sqlstate |-> out.sqlstate, execs |-> out.execs,
                           faults |-> faults]
    /\ UNCHANGED <<family, page, stats_query, mgr>>
    /\ CfgIdle

NextExec ==
    \/ \E lease \in LeaseInputs(family), faults \in [1..MaxExecs -> BOOLEAN] :
          AddLeaseExec(lease, faults)
    \/ \E addr \in AddrInputs(family) : DeleteLease(addr)

SpecExec == Init /\ [][NextExec]_vars

\* the step is a call of addLease
AddStep == last'.op = "add" /\ <<table, last>>' # <<table, last>>
\* the step inserted the row of the lease given to addLease
RowInserted ==
    /\ Bind(family, last'.lease) \notin table
    /\ table' = table \cup {Bind(family, last'.lease)}

\* C28: addLease returns true exactly when the row was inserted, returns false only when
\* the backend reported a duplicate key, raises DbOperationError for every other failure
\* of the insert, executes the insert once whatever the backend would answer to a second
\* execution, and leaves the store as it was whenever it did not return true
C28_AddLeaseOutcomes ==
    [][AddStep =>
          /\ (last'.status = "ok" /\ last'.ret) <=> RowInserted
          /\ (last'.status = "ok" /\ ~last'.ret) =>
                 /\ last'.sqlstate = DUPLICATE_KEY
                 /\ InsertIsDuplicate(table, Bind(family, last'.lease))
          /\ (BindOK(family, last'.lease) /\ last'.faults[1]) =>
                 last'.status = "DbOperationError"
          /\ last'.execs = (IF BindOK(family, last'.lease) THEN 1 ELSE 0)
          /\ ~(last'.status = "ok" /\ last'.ret) => table' = table
          /\ last'.status \in {"ok", "DbOperationError"}]_vars

\* an insert of a new address failed in the backend, which would have accepted a second
\* execution: DbOperationError after one execution, the address is still not stored and
\* another lease is
C28_Witness ==
    /\ last.op = "add"
    /\ last.status = "DbOperationError"
    /\ last.sqlstate = "08006"
    /\ last.faults = <<TRUE, FALSE>>
    /\ last.execs = 1
    /\ ~StoredBefore(last.lease)
    /\ table # {}

(***************************************************************************)
(* A page requested from a lower bound of either address family.           *)
(***************************************************************************)
\* the statements getLeases4 / getLeases6(lower_bound_address, page_size) execute: the
\* family of the lower bound is examined first, the page statement follows
getLeasesPageStatements(f, lower_bound_address) ==
    IF f = 4
    THEN IF ~isV4(lower_bound_address) THEN <<>> ELSE <<"GET_LEASE4_PAGE">>
    ELSE IF ~isV6(lower_bound_address) THEN <<>> ELSE <<"GET_LEASE6_PAGE">>

\* lower bounds of both families
BoundInputs == PageAddrs(4) \cup PageAddrs(6)

\* getLeases4(lower_bound_address, page_size) of a v4 store, getLeases6(...) of a v6 store
GetLeasesFrom(lower_bound_address, page_size) ==
    /\ LET res == IF family = 4 THEN getLeases4(table, lower_bound_address, page_size)
                  ELSE getLeases6(table, lower_bound_address, page_size)
       IN last' = [op |-> "getLeases", lower |-> lower_bound_address, size |-> page_size,
                   status |-> res.status, leases |-> res.leases,
                   sent |-> getLeasesPageStatements(family, lower_bound_address)]
    /\ UNCHANGED <<family, table, page, stats_query, mgr>>
    /\ CfgIdle

NextBound ==
    \/ \E lease \in LeaseInputs(family) : AddLease(lease)
    \/ \E addr \in AddrInputs(family) : DeleteLease(addr)
    \/ \E lower \in BoundInputs, size \in 1..MaxPageSize : GetLeasesFrom(lower, size)

SpecBound == Init /\ [][NextBound]_vars

\* the latest call asked for a page from a lower bound of the other family
ForeignBound == last.op = "getLeases" /\ last.lower.family # family

\* C29: getLeases4(lower_bound, page_size) with an IPv6 lower bound and
\* getLeases6(lower_bound, page_size) with an IPv4 lower bound fail with
\* InvalidAddressFamily, return no lease and send no statement to the backend; a lower
\* bound of the store's own family never fails that way and sends the page statement
C29_InvalidAddressFamily ==
    /\ ForeignBound => /\ last.status = "InvalidAddressFamily"
                       /\ last.leases = <<>>
                       /\ last.sent = <<>>
    /\ (last.op = "getLeases" /\ ~ForeignBound) => /\ last.status # "InvalidAddressFamily"
                                                   /\ Len(last.sent) = 1

\* getLeases4 was called with the v6 bound :: on a store holding v4 leases, all above
\* the bound's low bits
C29_Witness ==
    /\ ForeignBound
    /\ family = 4
    /\ last.lower = IPV6_ZERO_ADDRESS
    /\ last.status = "InvalidAddressFamily"
    /\ Cardinality(table) = MaxAddr

(***************************************************************************)
(* The operations the PostgreSQL backend does not implement.               *)
(***************************************************************************)
\* faulty variant: the leases of the subnet are deleted and counted
wipeLeases4_Deleting(t, f, subnet_id) ==
    LET gone == IF f = 4 THEN {r \in t : r.subnet_id = subnet_id} ELSE {}
    IN [status |-> "ok", n |-> Cardinality(gone), table |-> t \ gone]

\* wipeLeases4(subnet_id) on the table t of a store of family f
wipeLeases4(t, f, subnet_id) == [status |-> "NotImplemented", n |-> 0, table |-> t]

\* wipeLeases6(subnet_id)
wipeLeases6(t, f, subnet_id) == [status |-> "NotImplemented", n |-> 0, table |-> t]

\* getLease4(client_id, hwaddr, subnet_id)
getLease4ClientIdHWAddrSubnet(t, clientid, hwaddr, subnet_id) ==
    Result("NotImplemented", FALSE, NoLease)

WipeLeases4(subnet_id) ==
    /\ LET res == wipeLeases4(table, family, subnet_id)
       IN /\ table' = res.table
          /\ last' = [op |-> "wipeLeases4", subnet_id |-> subnet_id, status |-> res.status,
                      n |-> res.n, found |-> FALSE]
    /\ UNCHANGED <<family, page, stats_query, mgr>>
    /\ CfgIdle

WipeLeases6(subnet_id) ==
    /\ LET res == wipeLeases6(table, family, subnet_id)
       IN /\ table' = res.table
          /\ last' = [op |-> "wipeLeases6", subnet_id |-> subnet_id, status |-> res.status,
                      n |-> res.n, found |-> FALSE]
    /\ UNCHANGED <<family, page, stats_query, mgr>>
    /\ CfgIdle

GetLease4ClientIdHWAddrSubnet(clientid, hwaddr, subnet_id) ==
    /\ LET res == getLease4ClientIdHWAddrSubnet(table, clientid, hwaddr, subnet_id)
       IN last' = [op |-> "getLease4", subnet_id |-> subnet_id, status |-> res.status,
                   n |-> 0, found |-> res.found, client_id |-> clientid, hwaddr |-> hwaddr]
    /\ UNCHANGED <<family, table, page, stats_query, mgr>>
    /\ CfgIdle

NextWipe ==
    \/ \E lease \in LeaseInputs(family) : AddLease(lease)
    \/ \E addr \in AddrInputs(family) : DeleteLease(addr)
    \/ \E subnet_id \in SubnetIds : WipeLeases4(subnet_id)
    \/ \E subnet_id \in SubnetIds : WipeLeases6(subnet_id)
    \/ \E c \in ClientIdKeys, h \in HWAddrKeys, subnet_id \in SubnetIds :
          GetLease4ClientIdHWAddrSubnet(c, h, subnet_id)

SpecWipe == Init /\ [][NextWipe]_vars

Unimplemented == {"wipeLeases4", "wipeLeases6", "getLease4"}

\* C30: wipeLeases4, wipeLeases6 and getLease4(client_id, hwaddr, subnet_id) fail with
\* NotImplemented for every argument and every content of the store, delete and return
\* nothing, and leave the lease store as it was
C30_NotImplemented ==
    /\ [](last.op \in Unimplemented =>
             last.status = "NotImplemented" /\ last.n = 0 /\ ~last.found)
    /\ [][(last'.op \in Unimplemented /\ last' # last) => table' = table]_vars

\* wipeLeases4 was called for a subnet of which the v4 store holds a lease: the call
\* failed and the lease is still stored
C30_Witness ==
    /\ last.op = "wipeLeases4"
    /\ last.status = "NotImplemented"
    /\ family = 4
    /\ \E r \in table : r.subnet_id = last.subnet_id

(***************************************************************************)
(* A paged iteration while other handles add and delete leases.  last      *)
(* records what the other handles did since the iteration began.           *)
(***************************************************************************)
\* leases the other handles may add during one iteration
MaxOthers == 2

\* the addresses of the shared store: the zero address, two neighbours and, for v6, an
\* address that the textual order puts before a numerically smaller one
SharedAddrs(f) ==
    IF f = 4 THEN {V4(n) : n \in 0..MaxPageAddr}
    ELSE {V6(0, n) : n \in 0..MaxPageAddr} \cup {V6(0, 16)}

InitShared ==
    /\ family \in {4, 6}
    /\ \E S \in SUBSET SharedAddrs(family) : table = {Bind(family, PageLease(family, a)) : a \in S}
    /\ last = [op |-> "others", kept |-> {FromRow(family, r).lease : r \in table}, adds |-> 0,
               initial |-> Cardinality(table),
               zero |-> \E r \in table : r.address = AddrKey(family, ZeroAddress(family))]
    /\ \E size \in 1..MaxPageSize :
           page = [lower |-> ZeroAddress(family), size |-> size, seen |-> <<>>,
                   done |-> FALSE, calls |-> 0]
    /\ stats_query = NoStats
    /\ mgr = Constructed
    /\ CfgEmpty

\* addLease through another handle, between two page calls
OtherAddLease(a) ==
    /\ ~page.done
    /\ last.adds < MaxOthers
    /\ addLeaseCommon(table, Bind(family, PageLease(family, a)))
    /\ table' = InsertLease(table, Bind(family, PageLease(family, a)))
    /\ last' = [last EXCEPT !.adds = @ + 1, !.zero = @ \/ a = ZeroAddress(family)]
    /\ UNCHANGED <<family, page, stats_query, mgr>>
    /\ CfgIdle

\* deleteLease through another handle, between two page calls
OtherDeleteLease(a) ==
    /\ ~page.done
    /\ DeleteLeaseRows(table, AddrKey(family, a)) # {}
    /\ table' = table \ DeleteLeaseRows(table, AddrKey(family, a))
    /\ last' = [last EXCEPT !.kept = {l \in @ : l.addr # a}]
    /\ UNCHANGED <<family, page, stats_query, mgr>>
    /\ CfgIdle

NextShared ==
    \/ GetLeasesPage
    \/ \E a \in SharedAddrs(family) : OtherAddLease(a)
    \/ \E a \in SharedAddrs(family) : OtherDeleteLease(a)

SpecShared == InitShared /\ [][NextShared]_vars

\* C31 as stated: the addresses come strictly ascending, none of them twice, and a
\* finished iteration has returned every lease that stayed stored throughout
C31_AscendingOnceComplete ==
    /\ \A i, j \in 1..Len(page.seen) : i < j => AddressLess(page.seen[i].addr, page.seen[j].addr)
    /\ page.done => last.kept \subseteq SeenSet

\* C31 (amended): while other handles add and delete leases between the page calls, and
\* as long as no lease is stored at the family's zero address, the iteration returns no
\* address twice, returns the addresses strictly ascending in the order of the address
\* column (numeric for v4, textual for v6) across all pages, has returned every lease
\* that stayed stored throughout once it is finished, and every page before the empty
\* one brings a new address, so that the iteration ends within one call more than the
\* leases stored at its start and added since, once the store has stopped growing
C31_IterationUnderChanges ==
    ~last.zero =>
        /\ \A i, j \in 1..Len(page.seen) :
               i < j => AddressColumnLess(family, AddrKey(family, page.seen[i].addr),
                                          AddrKey(family, page.seen[j].addr))
        /\ page.done => last.kept \subseteq SeenSet
        /\ Len(page.seen) <= last.initial + last.adds
        /\ page.calls <= Len(page.seen) + (IF page.done THEN 1 ELSE 0)
        /\ ~page.done => page.calls < MaxPages

\* a finished iteration of several pages during which a lease was added and returned,
\* another was deleted, and the leases stored throughout were all returned
C31_Witness ==
    /\ page.done
    /\ ~last.zero
    /\ last.adds > 0
    /\ page.calls >= 3
    /\ last.kept # {}
    /\ last.kept \subseteq SeenSet
    /\ \E l \in SeenSet : l \notin last.kept /\ l \in StoredLeases
    /\ \E l \in SeenSet : l \notin StoredLeases

(***************************************************************************)
(* The selection modes of the statistics cursor, over leases of subnets    *)
(* below, inside and above a range.                                        *)
(***************************************************************************)
ModeSubnetIds == 1..(MaxSubnetId + 1)
ModeLeases(f) ==
    IF f = 4
    THEN {[Base4(a) EXCEPT !.subnet_id = s] : a \in Addrs, s \in ModeSubnetIds}
    ELSE {[Base6(a) EXCEPT !.subnet_id = s, !.type = ty] :
             a \in Addrs, s \in ModeSubnetIds, ty \in {TYPE_NA, TYPE_PD}}

NextMode ==
    \/ \E lease \in ModeLeases(family) : AddLease(lease)
    \/ \E addr \in AddrInputs(family) : DeleteLease(addr)
    \/ StartLeaseStatsQuery
    \/ \E subnet_id \in ModeSubnetIds : StartSubnetLeaseStatsQuery(subnet_id)
    \/ \E first_subnet_id, last_subnet_id \in ModeSubnetIds :
           StartSubnetRangeLeaseStatsQuery(first_subnet_id, last_subnet_id)
    \/ GetNextRow

SpecMode == Init /\ [][NextMode]_vars

\* the step hands out a new cursor
CursorStarted == stats_query'.created /\ stats_query'.calls = 0 /\ stats_query' # stats_query
\* the subnets whose statistics the started cursor holds / the subnets that have leases
SubnetsIn(q) == {q.result_set_[i].subnet_id : i \in 1..Len(q.result_set_)}
SubnetsStored == {r.subnet_id : r \in table}

\* C32: a cursor is started with the statement and the values its selection mode
\* decides: all-subnets binds nothing, single-subnet binds the one subnet id,
\* subnet-range binds (first, last) in that order and holds the statistics of exactly
\* the subnets with first <= id <= last; the values bound are as many as the catalog
\* entry declares; getNextRow leaves the mode, the statement and the values as they
\* were, and every row handed out by a v4 cursor has lease type NA
C32_SelectionMode ==
    /\ [][CursorStarted =>
             LET q == stats_query'
             IN /\ q.status = "ok"
                /\ q.statement_ = StatsStatement(family, q.select_mode)
                /\ Len(q.parms) = q.statement_.nbparams
                /\ q.select_mode = "ALL_SUBNETS" =>
                       q.parms = <<>> /\ SubnetsIn(q) = SubnetsStored
                /\ q.select_mode = "SINGLE_SUBNET" =>
                       /\ q.parms = <<q.first_subnet_id>>
                       /\ SubnetsIn(q) = SubnetsStored \cap {q.first_subnet_id}
                /\ q.select_mode = "SUBNET_RANGE" =>
                       /\ q.parms = <<q.first_subnet_id, q.last_subnet_id>>
                       /\ SubnetsIn(q) = {id \in SubnetsStored : /\ q.first_subnet_id <= id
                                                                /\ id <= q.last_subnet_id}
                /\ {[subnet_id |-> r.subnet_id, lease_type |-> r.lease_type, state |-> r.state,
                     leases |-> r.leases] : r \in {q.result_set_[i] : i \in 1..Len(q.result_set_)}}
                       = {r \in LeaseStat(family, table) : r.subnet_id \in SubnetsIn(q)}]_vars
    /\ [][NextRowCalled =>
             /\ stats_query'.select_mode = stats_query.select_mode
             /\ stats_query'.statement_ = stats_query.statement_
             /\ stats_query'.parms = stats_query.parms
             /\ stats_query'.first_subnet_id = stats_query.first_subnet_id
             /\ stats_query'.last_subnet_id = stats_query.last_subnet_id
             /\ family = 4 => \A i \in 1..Len(stats_query'.fetched) :
                                  stats_query'.fetched[i].lease_type_ = TYPE_NA]_vars

\* a v4 cursor over the range (1, 2) on a store holding leases of the subnets 2 and 3:
\* the cursor holds the statistics of subnet 2 only and has handed out its row, of
\* lease type NA
C32_Witness ==
    /\ family = 4
    /\ stats_query.created
    /\ stats_query.select_mode = "SUBNET_RANGE"
    /\ stats_query.parms = <<1, 2>>
    /\ stats_query.statement_.name = "subnet_range_lease4_stats"
    /\ SubnetsStored = {2, 3}
    /\ SubnetsIn(stats_query) = {2}
    /\ Len(stats_query.fetched) = 1
    /\ stats_query.fetched[1].lease_type_ = TYPE_NA

(***************************************************************************)
(* Pages of a v6 store requested from the zero address and from other      *)
(* lower bounds.                                                           *)
(***************************************************************************)
InitZero ==
    /\ family = 6
    /\ \E S \in SUBSET PageAddrs(6) : table = {Bind(6, PageLease(6, a)) : a \in S}
    /\ last = NoCall
    /\ page = NoPage
    /\ stats_query = NoStats
    /\ mgr = Constructed
    /\ CfgEmpty

NextZero ==
    \/ \E a \in PageAddrs(6) : AddLease(PageLease(6, a))
    \/ \E a \in PageAddrs(6) : DeleteLease(a)
    \/ \E lower \in PageAddrs(6), size \in 1..MaxPageSize : GetLeasesFrom(lower, size)

SpecZero == InitZero /\ [][NextZero]_vars

\* the address texts of the page returned by the latest call, and of the stored leases
\* the call's lower bound does not exclude
PageTexts == {toText(last.leases[i].addr) : i \in 1..Len(last.leases)}
AboveBound ==
    IF isV6Zero(last.lower) THEN AddressesOf(table)
    ELSE {x \in AddressesOf(table) : TextLess(toText(last.lower), x)}

\* C33: getLeases6(::, page_size) excludes no stored lease: the page holds the
\* min(page_size, number stored) leases that come first in the textual order of the
\* address column, the least stored address first, the lease at :: among the candidates;
\* a page from any other lower bound holds the first leases whose address text is
\* greater than the text of the bound
C33_ZeroIsMinimum ==
    (last.op = "getLeases" /\ last.status = "ok") =>
        /\ PageTexts \subseteq AboveBound
        /\ Len(last.leases) = IF Cardinality(AboveBound) < last.size
                              THEN Cardinality(AboveBound) ELSE last.size
        /\ Cardinality(PageTexts) = Len(last.leases)
        /\ \A x \in PageTexts, y \in AboveBound \ PageTexts : TextLess(x, y)
        /\ \A i, j \in 1..Len(last.leases) :
               i < j => TextLess(toText(last.leases[i].addr), toText(last.leases[j].addr))
        /\ last.sent = <<"GET_LEASE6_PAGE">>

\* a page of one lease requested from :: on a store that holds leases at ::, at ::1 and
\* at a:: returned 1::, the least address text stored (":" follows the digits and
\* precedes the letters)
C33_Witness ==
    /\ last.op = "getLeases"
    /\ isV6Zero(last.lower)
    /\ last.size = 1
    /\ {V6(0, 0), V6(0, 1), V6(10, 0)} \subseteq {FromRow(6, r).lease.addr : r \in table}
    /\ Len(last.leases) = 1
    /\ last.leases[1].addr = V6(1, 0)

(***************************************************************************)
(* Two handles adding a lease for one address at the same time.  Each      *)
(* handle first builds its bind array and then executes the insert, which  *)
(* the backend runs atomically; last holds the position of both handles.   *)
(***************************************************************************)
Handles == {1, 2}

InitRace ==
    /\ family \in {4, 6}
    /\ \E a \in Addrs, stored \in BOOLEAN : \E b \in Addrs \ {a} :
          /\ table = IF stored THEN {Bind(family, IF family = 4 THEN Base4(b) ELSE Base6(b))}
                     ELSE {}
          /\ \E l1, l2 \in (IF family = 4 THEN Lease4Variants(a) ELSE Lease6Variants(a)) :
                last = [op |-> "race",
                        handle |-> [h \in Handles |->
                                       [pc |-> "addLease", lease |-> IF h = 1 THEN l1 ELSE l2,
                                        status |-> "ok", ret |-> FALSE]]]
    /\ page = NoPage
    /\ stats_query = NoStats
    /\ mgr = Constructed
    /\ CfgEmpty

\* addLease of handle h up to the call of addLeaseCommon: createBindForSend
CreateBindForSend(h) ==
    /\ last.handle[h].pc = "addLease"
    /\ last' = [last EXCEPT !.handle[h] =
                   IF BindOK(family, @.lease) THEN [@ EXCEPT !.pc = "addLeaseCommon"]
                   ELSE [@ EXCEPT !.pc = "done", !.status = "DbOperationError"]]
    /\ UNCHANGED <<family, table, page, stats_query, mgr>>
    /\ CfgIdle

\* addLeaseCommon of handle h: the insert and the result made of its status
AddLeaseCommon(h) ==
    /\ last.handle[h].pc = "addLeaseCommon"
    /\ table' = InsertLease(table, Bind(family, last.handle[h].lease))
    /\ last' = [last EXCEPT !.handle[h] =
                   [@ EXCEPT !.pc = "done",
                             !.ret = addLeaseCommon(table, Bind(family, last.handle[h].lease))]]
    /\ UNCHANGED <<family, page, stats_query, mgr>>
    /\ CfgIdle

NextRace ==
    \/ \E h \in Handles : CreateBindForSend(h)
    \/ \E h \in Handles : AddLeaseCommon(h)

SpecRace == InitRace /\ [][NextRace]_vars

\* the handles whose addLease has returned true
Winners == {h \in Handles : last.handle[h].pc = "done" /\ last.handle[h].ret}
BothDone == \A h \in Handles : last.handle[h].pc = "done"
BothBindOK == \A h \in Handles : BindOK(family, last.handle[h].lease)
RaceAddress == AddrKey(family, last.handle[1].lease.addr)

\* C34: of two addLease calls made through different handles for one address that is
\* not stored, with leases the exchange accepts, at most one has returned true at any
\* time; when both have returned, exactly one returned true, the other false, neither
\* raised an error, and the row stored for the address is the row of the lease of the
\* call that returned true
C34_OneAddWins ==
    BothBindOK =>
        /\ Cardinality(Winners) <= 1
        /\ \A h \in Handles : last.handle[h].status = "ok"
        /\ \A h \in Winners : Bind(family, last.handle[h].lease) \in table
        /\ Cardinality({r \in table : r.address = RaceAddress}) <= 1
        /\ BothDone =>
               /\ Cardinality(Winners) = 1
               /\ {r \in table : r.address = RaceAddress}
                      = {Bind(family, last.handle[h].lease) : h \in Winners}

\* both calls have returned, the second handle's call with true: its lease, which
\* differs from the lease of the first handle, is the one stored
C34_Witness ==
    /\ BothDone
    /\ BothBindOK
    /\ Winners = {2}
    /\ last.handle[1].lease # last.handle[2].lease
    /\ Bind(family, last.handle[2].lease) \in table
    /\ Bind(family, last.handle[1].lease) \notin table

(***************************************************************************)
(* The deletes of option definitions, global options and global            *)
(* parameters, with the selector and the key of each delete recorded in    *)
(* cfg_last.                                                               *)
(***************************************************************************)
\* deleteAllOptionDefs4(server_selector)
deleteAllOptionDefs4(c, server_selector) ==
    SelectSeq(c, LAMBDA e : ~hasServerTag(e, getServerTag(server_selector)))

\* deleteAllGlobalParameters4(server_selector)
deleteAllGlobalParameters4(c, server_selector) ==
    SelectSeq(c, LAMBDA e : ~hasServerTag(e, getServerTag(server_selector)))

ScopedDeleteOptionDef4(sel, code, space) ==
    /\ option_defs_' = deleteOptionDef4(option_defs_, sel, code, space)
    /\ cfg_last' = CfgCall("deleteOptionDef4", sel, [code |-> code, space |-> space],
                           Len(option_defs_) - Len(option_defs_'))
    /\ UNCHANGED <<subnets_, options_, globals_, page, shared_networks_>>
    /\ LeaseIdle

ScopedDeleteAllOptionDefs4(sel) ==
    /\ option_defs_' = deleteAllOptionDefs4(option_defs_, sel)
    /\ cfg_last' = CfgCall("deleteAllOptionDefs4", sel, NullPtr,
                           Len(option_defs_) - Len(option_defs_'))
    /\ UNCHANGED <<subnets_, options_, globals_, page, shared_networks_>>
    /\ LeaseIdle

ScopedDeleteOption4(sel, code, space) ==
    /\ options_' = deleteOption4(options_, sel, code, space)
    /\ cfg_last' = CfgCall("deleteOption4", sel, [code |-> code, space |-> space],
                           Len(options_) - Len(options_'))
    /\ UNCHANGED <<subnets_, option_defs_, globals_, page, shared_networks_>>
    /\ LeaseIdle

ScopedDeleteGlobalParameter4(sel, name) ==
    /\ globals_' = deleteGlobalParameter4(globals_, sel, name)
    /\ cfg_last' = CfgCall("deleteGlobalParameter4", sel, [name |-> name],
                           Len(globals_) - Len(globals_'))
    /\ UNCHANGED <<subnets_, option_defs_, options_, page, shared_networks_>>
    /\ LeaseIdle

ScopedDeleteAllGlobalParameters4(sel) ==
    /\ globals_' = deleteAllGlobalParameters4(globals_, sel)
    /\ cfg_last' = CfgCall("deleteAllGlobalParameters4", sel, NullPtr,
                           Len(globals_) - Len(globals_'))
    /\ UNCHANGED <<subnets_, option_defs_, options_, page, shared_networks_>>
    /\ LeaseIdle

NextScope ==
    \/ \E sel \in Selectors, def \in OptionDefInputs : CreateUpdateOptionDef4(sel, def)
    \/ \E sel \in Selectors, opt \in OptionInputs : CreateUpdateOption4(sel, opt)
    \/ \E sel \in Selectors, value \in GlobalInputs : CreateUpdateGlobalParameter4(sel, value)
    \/ \E sel \in Selectors, code \in Codes, space \in Spaces :
           ScopedDeleteOptionDef4(sel, code, space)
    \/ \E sel \in Selectors : ScopedDeleteAllOptionDefs4(sel)
    \/ \E sel \in Selectors, code \in Codes, space \in Spaces :
           ScopedDeleteOption4(sel, code, space)
    \/ \E sel \in Selectors, name \in Names : ScopedDeleteGlobalParameter4(sel, name)
    \/ \E sel \in Selectors : ScopedDeleteAllGlobalParameters4(sel)

SpecScope == InitCfg /\ [][NextScope]_vars

\* the step is a delete of the named operation
DeleteStep(op) == cfg_last'.op = op /\ cfg_last' # cfg_last
\* the entries of c that a delete of the latest call's scope and key is to remove: those
\* of the key (every entry for a delete-all) that own the tag of the call's selector
HasKey(e, arg) ==
    \/ arg = NullPtr
    \/ arg # NullPtr /\ "name" \in DOMAIN arg /\ e.name = arg.name
    \/ arg # NullPtr /\ "code" \in DOMAIN arg /\ e.code = arg.code /\ e.space = arg.space
InScope(e) == HasKey(e, cfg_last'.arg) /\ hasServerTag(e, getServerTag(cfg_last'.sel))
\* the delete removed exactly the entries in scope from c and returned their number
RemovedScoped(c, d) ==
    /\ d = SelectSeq(c, LAMBDA e : ~InScope(e))
    /\ cfg_last'.n = Cardinality({i \in Indices(c) : InScope(c[i])})
\* what a getter returns for the selector of one server after that server's own entry
\* of the key is gone: the all-servers entry of the key when there is one, else nothing
FallsBackToAll(c, d, r) ==
    (/\ cfg_last'.arg # NullPtr
     /\ cfg_last'.sel # SelectorALL
     /\ cfg_last'.n > 0)
        => LET all == {i \in Indices(d) : HasKey(d[i], cfg_last'.arg) /\ hasAllServerTag(d[i])}
           IN IF all = {} THEN r = NullPtr
              ELSE r # NullPtr /\ hasAllServerTag(r) /\ HasKey(r, cfg_last'.arg)
                   /\ \E i \in Indices(c) : c[i] = r

\* C35: deleteOptionDef4, deleteOption4, deleteGlobalParameter4, deleteAllOptionDefs4
\* and deleteAllGlobalParameters4 remove the entries owned by the tag of their selector
\* (of the key given, for the first three) and no other, return the number removed and
\* leave the other collections alone; after the entry of a key owned by a server X is
\* deleted, the getter of the collection returns for selector {X} the all-servers entry
\* of the key, which is still stored
C35_ScopedDeletes ==
    /\ [][DeleteStep("deleteOptionDef4") =>
             /\ RemovedScoped(option_defs_, option_defs_')
             /\ FallsBackToAll(option_defs_, option_defs_',
                               getOptionDef4(option_defs_', cfg_last'.sel, cfg_last'.arg.code,
                                             cfg_last'.arg.space))
             /\ UNCHANGED <<options_, globals_>>]_vars
    /\ [][DeleteStep("deleteOption4") =>
             /\ RemovedScoped(options_, options_')
             /\ FallsBackToAll(options_, options_',
                               getOption4(options_', cfg_last'.sel, cfg_last'.arg.code,
                                          cfg_last'.arg.space))
             /\ UNCHANGED <<option_defs_, globals_>>]_vars
    /\ [][DeleteStep("deleteGlobalParameter4") =>
             /\ RemovedScoped(globals_, globals_')
             /\ FallsBackToAll(globals_, globals_',
                               getGlobalParameter4(globals_', cfg_last'.sel, cfg_last'.arg.name))
             /\ UNCHANGED <<option_defs_, options_>>]_vars
    /\ [][DeleteStep("deleteAllOptionDefs4") =>
             /\ RemovedScoped(option_defs_, option_defs_')
             /\ UNCHANGED <<options_, globals_>>]_vars
    /\ [][DeleteStep("deleteAllGlobalParameters4") =>
             /\ RemovedScoped(globals_, globals_')
             /\ UNCHANGED <<option_defs_, options_>>]_vars

\* the definition of a code owned by srvA was deleted with selector {srvA}: one entry
\* removed, the definition of that code owned by all servers is still stored and is
\* what getOptionDef4 returns for {srvA}
C35_Witness ==
    /\ cfg_last.op = "deleteOptionDef4"
    /\ cfg_last.sel = SelectorONE("srvA")
    /\ cfg_last.n = 1
    /\ Len(option_defs_) = 1
    /\ hasAllServerTag(option_defs_[1])
    /\ option_defs_[1].code = cfg_last.arg.code
    /\ option_defs_[1].space = cfg_last.arg.space
    /\ getOptionDef4(option_defs_, SelectorONE("srvA"), cfg_last.arg.code, cfg_last.arg.space)
           = option_defs_[1]

(***************************************************************************)
(* Option definitions by name, checked under SpecCfg.                      *)
(***************************************************************************)
\* the step is a createUpdateOptionDef4 call
OptionDefWritten ==
    /\ cfg_last'.op = "createUpdateOptionDef4"
    /\ <<cfg_last, option_defs_>>' # <<cfg_last, option_defs_>>
\* the stored definitions the written one matches by code, and by name, in its space
\* and scope
MatchesByCode ==
    {i \in Indices(option_defs_) :
        /\ option_defs_[i].code = cfg_last'.arg.code
        /\ option_defs_[i].space = cfg_last'.arg.space
        /\ hasServerTag(option_defs_[i], getServerTag(cfg_last'.sel))}
MatchesByName ==
    {i \in Indices(option_defs_) :
        /\ option_defs_[i].name = cfg_last'.arg.name
        /\ option_defs_[i].space = cfg_last'.arg.space
        /\ hasServerTag(option_defs_[i], getServerTag(cfg_last'.sel))}
OnePerName(c) == OnePerScope(c, LAMBDA a, b : a.name = b.name /\ a.space = b.space)

\* C36 as stated: the store never holds two option definitions of one name, option
\* space and server scope
C36_OnePerNameAndScope == OnePerName(option_defs_)

\* C36 (what holds): createUpdateOptionDef4 replaces the stored definition of the
\* written code, space and scope when there is one, otherwise the stored definition of
\* the written name, space and scope, and otherwise appends; the names of a space and
\* scope stay distinct over a write unless the write matched one definition by code and
\* another one by name, and then both are stored afterwards under the written name
C36_ReplacesByCodeThenName ==
    [][OptionDefWritten =>
          LET def == setServerTag(cfg_last'.arg, getServerTag(cfg_last'.sel))
          IN /\ MatchesByCode # {} =>
                    \E i \in MatchesByCode : option_defs_' = [option_defs_ EXCEPT ![i] = def]
             /\ (MatchesByCode = {} /\ MatchesByName # {}) =>
                    \E i \in MatchesByName : option_defs_' = [option_defs_ EXCEPT ![i] = def]
             /\ (MatchesByCode = {} /\ MatchesByName = {}) =>
                    option_defs_' = Append(option_defs_, def)
             /\ (OnePerName(option_defs_)
                     /\ (MatchesByCode = {} \/ MatchesByName \subseteq MatchesByCode))
                    => OnePerName(option_defs_')
             /\ (MatchesByCode # {} /\ ~(MatchesByName \subseteq MatchesByCode))
                    => ~OnePerName(option_defs_')]_vars

\* a write for srvA matched one stored definition by code and another by name: the
\* store now holds two definitions of srvA with the written name in one space
C36_Witness ==
    /\ cfg_last.op = "createUpdateOptionDef4"
    /\ cfg_last.sel = SelectorONE("srvA")
    /\ Len(option_defs_) = 2
    /\ option_defs_[1].name = option_defs_[2].name
    /\ option_defs_[1].space = option_defs_[2].space
    /\ option_defs_[1].tags = {"srvA"}
    /\ option_defs_[2].tags = {"srvA"}
    /\ option_defs_[1].code # option_defs_[2].code
    /\ cfg_last.arg.name = option_defs_[1].name

(***************************************************************************)
(* The failures of the option writes to a target, checked under SpecOpt.   *)
(***************************************************************************)
\* the step is an option write to the kind of target named
TargetWritten(op) ==
    /\ cfg_last'.op = op
    /\ <<cfg_last, subnets_, shared_networks_>>' # <<cfg_last, subnets_, shared_networks_>>
\* the stored targets the write names: subnets of the ID, shared networks of the name
NamedSubnets == {i \in Indices(subnets_) : subnets_[i].id = cfg_last'.arg.target}
NamedNetworks == {i \in Indices(shared_networks_) : shared_networks_[i].name = cfg_last'.arg.target}
\* the entity owns the all-servers tag or a tag of the selector of the write
OwnedForWrite(e) == "all" \in e.tags \/ e.tags \cap cfg_last'.sel.tags # {}
NothingWritten == UNCHANGED <<subnets_, shared_networks_>>
IsBadValue(status) ==
    status \in {"BadValue: non existing shared network", "BadValue: non existing subnet ID",
                "BadValue: not present in a selected server", "BadValue: non existing pool",
                "BadValue: pool not present in a selected server"}

\* C37: createUpdateOption4 for a subnet ID or a shared-network name fails with BadValue
\* and changes no option configuration when no such target is stored, and when the
\* target stored owns neither the all-servers tag nor a tag of the selector; otherwise
\* it succeeds and the option is written into the configuration of that target alone
C37_TargetMustBeSelected ==
    /\ [][TargetWritten("createUpdateOption4 (subnet)") =>
             /\ NamedSubnets = {} =>
                    /\ cfg_last'.arg.status = "BadValue: non existing subnet ID"
                    /\ NothingWritten
             /\ \A i \in NamedSubnets :
                    IF OwnedForWrite(subnets_[i])
                    THEN /\ cfg_last'.arg.status = "ok"
                         /\ WrittenInto(subnets_[i].cfg_option, subnets_'[i].cfg_option,
                                        cfg_last'.arg.option)
                         /\ shared_networks_' = shared_networks_
                         /\ subnets_' = [subnets_ EXCEPT ![i].cfg_option = subnets_'[i].cfg_option]
                    ELSE /\ cfg_last'.arg.status = "BadValue: not present in a selected server"
                         /\ NothingWritten]_vars
    /\ [][TargetWritten("createUpdateOption4 (shared network)") =>
             /\ NamedNetworks = {} =>
                    /\ cfg_last'.arg.status = "BadValue: non existing shared network"
                    /\ NothingWritten
             /\ \A i \in NamedNetworks :
                    IF OwnedForWrite(shared_networks_[i])
                    THEN /\ cfg_last'.arg.status = "ok"
                         /\ WrittenInto(shared_networks_[i].cfg_option,
                                        shared_networks_'[i].cfg_option, cfg_last'.arg.option)
                         /\ subnets_' = subnets_
                         /\ shared_networks_' =
                                [shared_networks_ EXCEPT
                                    ![i].cfg_option = shared_networks_'[i].cfg_option]
                    ELSE /\ cfg_last'.arg.status = "BadValue: not present in a selected server"
                         /\ NothingWritten]_vars
    /\ [](cfg_last.arg # NullPtr => (cfg_last.arg.status = "ok" \/ IsBadValue(cfg_last.arg.status)))

\* a write with selector {srvB} to subnet 1, which is stored and owned by srvA alone,
\* failed; the subnet has the option an earlier write gave it and no other
C37_Witness ==
    /\ cfg_last.op = "createUpdateOption4 (subnet)"
    /\ cfg_last.sel = SelectorONE("srvB")
    /\ cfg_last.arg.target = 1
    /\ cfg_last.arg.status = "BadValue: not present in a selected server"
    /\ \E i \in Indices(subnets_) : /\ subnets_[i].id = 1
                                    /\ subnets_[i].tags = {"srvA"}
                                    /\ Len(subnets_[i].cfg_option) = 1

(***************************************************************************)
(* The failures of the option writes to a pool, checked under SpecOpt.     *)
(***************************************************************************)
\* the stored subnets with a pool starting at the address the write names
SubnetsWithPool ==
    {i \in Indices(subnets_) :
        \E k \in Indices(subnets_[i].pools) : subnets_[i].pools[k].first = cfg_last'.arg.target}
SelectedWithPool == {i \in SubnetsWithPool : OwnedForWrite(subnets_[i])}

\* C38 as stated: a pool write fails with the "non existing pool" BadValue when no stored
\* subnet has a pool starting at the address, and with the "not present in a selected
\* server" BadValue when such a pool exists only in subnets owning neither the
\* all-servers tag nor a tag of the selector; no pool's options change in either case
C38_PoolFailureAsStated ==
    [][TargetWritten("createUpdateOption4 (pool)") =>
          /\ SubnetsWithPool = {} =>
                 /\ cfg_last'.arg.status = "BadValue: non existing pool"
                 /\ NothingWritten
          /\ (SubnetsWithPool # {} /\ SelectedWithPool = {}) =>
                 /\ cfg_last'.arg.status = "BadValue: pool not present in a selected server"
                 /\ NothingWritten]_vars

\* C38, what the code does: both cases fail with BadValue and change nothing, but the
\* two messages are exchanged: "not present in a selected server" is reported when no
\* subnet has the pool, "non existing pool" when only unselected subnets have it
C38_PoolFailureExchanged ==
    [][TargetWritten("createUpdateOption4 (pool)") =>
          /\ SubnetsWithPool = {} =>
                 /\ cfg_last'.arg.status = "BadValue: pool not present in a selected server"
                 /\ NothingWritten
          /\ (SubnetsWithPool # {} /\ SelectedWithPool = {}) =>
                 /\ cfg_last'.arg.status = "BadValue: non existing pool"
                 /\ NothingWritten
          /\ SelectedWithPool # {} => cfg_last'.arg.status = "ok"]_vars

\* a write with selector {srvB} to the pool starting at 1, which only subnet 1 (owned
\* by srvA) has, was refused as a non existing pool; the pool kept the option it had
C38_Witness ==
    /\ cfg_last.op = "createUpdateOption4 (pool)"
    /\ cfg_last.sel = SelectorONE("srvB")
    /\ cfg_last.arg.target = 1
    /\ cfg_last.arg.status = "BadValue: non existing pool"
    /\ \A i \in Indices(subnets_) :
           (\E k \in Indices(subnets_[i].pools) : subnets_[i].pools[k].first = 1)
               => subnets_[i].tags = {"srvA"}
    /\ \E i \in Indices(subnets_) : \E k \in Indices(subnets_[i].pools) :
           /\ subnets_[i].pools[k].first = 1
           /\ Len(subnets_[i].pools[k].cfg_option) = 1

=============================================================================
